---- MODULE Spec2Model ----
(***************************************************************************)
(* Secret detection and templating engine of aiconfigkit                   *)
(* (src/aiconfigkit/core/secret_detector.py).                              *)
(*                                                                         *)
(* A Python str is modelled as a sequence of one-character strings, so     *)
(* that upper(), split(), the substring test and the regular expressions   *)
(* of the source are computed character by character.  Entropy is kept in  *)
(* micro-bits per character (bits * 10^6).                                 *)
(***************************************************************************)
EXTENDS Integers, Sequences, FiniteSets, TLC

VARIABLES
    shared_detector,   \* the SecretDetector instance the caller holds (its fields)
    call,       \* the call being made: operation and arguments
    pc,         \* "start" before the call runs, "done" after it returned
    ret         \* what the call returned

vars == <<shared_detector, call, pc, ret>>

----------------------------------------------------------------------------
(* Characters and the str methods the source uses.                         *)

DIGITS == {"0", "1", "2", "3", "4", "5", "6", "7", "8", "9"}

LOWER == <<"a", "b", "c", "d", "e", "f", "g", "h", "i", "j", "k", "l", "m", "n", "o", "p", "q", "r", "s", "t", "u", "v", "w", "x", "y", "z">>

UPPER == <<"A", "B", "C", "D", "E", "F", "G", "H", "I", "J", "K", "L", "M", "N", "O", "P", "Q", "R", "S", "T", "U", "V", "W", "X", "Y", "Z">>

LowerSet == {LOWER[i] : i \in 1..26}

UpperSet == {UPPER[i] : i \in 1..26}

ToUpper == [c \in LowerSet |-> UPPER[CHOOSE i \in 1..26 : LOWER[i] = c]]

ToLower == [c \in UpperSet |-> LOWER[CHOOSE i \in 1..26 : UPPER[i] = c]]

\* str.strip() removes these (the ASCII whitespace of the value alphabet)
WHITESPACE == {" ", "\t", "\n", "\r"}

\* c.isalnum()
isalnum(c) == c \in DIGITS \/ c \in LowerSet \/ c \in UpperSet

\* \w of the re module
IsWordChar(c) == isalnum(c) \/ c = "_"

\* s.upper()
upper(s) == [i \in 1..Len(s) |-> IF s[i] \in LowerSet THEN ToUpper[s[i]] ELSE s[i]]

\* s.lower()
lower(s) == [i \in 1..Len(s) |-> IF s[i] \in UpperSet THEN ToLower[s[i]] ELSE s[i]]

\* mutant: nothing is replaced
replace_nothing(s, old, new) == s

\* s.replace(old, new) for one-character old and new
replace(s, old, new) == [i \in 1..Len(s) |-> IF s[i] = old THEN new ELSE s[i]]

\* sub in s
Contains(sub, s) ==
    \E i \in 0..(Len(s) - Len(sub)) : SubSeq(s, i + 1, i + Len(sub)) = sub

\* s.startswith(p)
startswith(s, p) == Len(p) <= Len(s) /\ SubSeq(s, 1, Len(p)) = p

\* s.endswith(p)
endswith(s, p) == Len(p) <= Len(s) /\ SubSeq(s, Len(s) - Len(p) + 1, Len(s)) = p

\* s.strip()
RECURSIVE lstrip(_)
lstrip(s) == IF s # <<>> /\ Head(s) \in WHITESPACE THEN lstrip(Tail(s)) ELSE s

RECURSIVE rstrip(_)
rstrip(s) ==
    IF s # <<>> /\ s[Len(s)] \in WHITESPACE THEN rstrip(SubSeq(s, 1, Len(s) - 1)) ELSE s

strip(s) == rstrip(lstrip(s))

\* s.split(sep) for a one-character sep: the list of parts, empty parts kept
RECURSIVE split(_, _)
RECURSIVE SplitAt(_, _, _)

\* the index of the first sep in s
find(s, sep) == CHOOSE j \in 1..Len(s) : s[j] = sep /\ \A k \in 1..(j - 1) : s[k] # sep

\* the part before the sep at i, then the parts of the rest
SplitAt(s, sep, i) == <<SubSeq(s, 1, i - 1)>> \o split(SubSeq(s, i + 1, Len(s)), sep)

split(s, sep) ==
    IF \A i \in 1..Len(s) : s[i] # sep THEN <<s>> ELSE SplitAt(s, sep, find(s, sep))

\* x in xs for a list xs
InList(x, xs) == \E i \in 1..Len(xs) : xs[i] = x

\* The '$' that ends a pattern matches at the end of the string and also just
\* before a newline that ends the string: the part of s the pattern must span.
DollarBodies(s) ==
    {s} \cup (IF s # <<>> /\ s[Len(s)] = "\n" THEN {SubSeq(s, 1, Len(s) - 1)} ELSE {})

----------------------------------------------------------------------------
(* SecretConfidence, SecretDetectionResult and the SecretDetector fields.  *)

SAFE == "SAFE"

MEDIUM == "MEDIUM"

HIGH == "HIGH"

\* Optional[str]: None, or a str
None == [some |-> FALSE, str |-> <<>>]

Some(s) == [some |-> TRUE, str |-> s]

\* truth value of an Optional[str]: None and the empty str are false
Truthy(opt) == opt.some /\ opt.str # <<>>

\* mutant: the result keeps the value without its surrounding whitespace
SecretDetectionResult_stripped(confidence, reason, original_value, templated_value) ==
    [confidence |-> confidence, reason |-> reason,
     original_value |-> strip(original_value), templated_value |-> templated_value]

SecretDetectionResult(confidence, reason, original_value, templated_value) ==
    [confidence |-> confidence, reason |-> reason,
     original_value |-> original_value, templated_value |-> templated_value]

\* the None a stage returns when no rule of the stage fired
NoResult == SecretDetectionResult("None", <<>>, <<>>, None)

\* "if keyword_result:" and its like: the stage returned a result, not None
IsResult(r) == r.confidence # "None"

\* high_entropy_threshold: float = 4.5, in micro-bits per character
DEFAULT_HIGH_ENTROPY_THRESHOLD == 4500000

\* min_secret_length: int = 8
DEFAULT_MIN_SECRET_LENGTH == 8

SECRET_KEYWORDS ==
    << <<"T", "O", "K", "E", "N">>, <<"K", "E", "Y">>, <<"S", "E", "C", "R", "E", "T">>, <<"P", "A", "S", "S", "W", "O", "R", "D">>, <<"P", "A", "S", "S", "W", "D">>,
       <<"C", "R", "E", "D", "E", "N", "T", "I", "A", "L">>, <<"A", "U", "T", "H">>, <<"P", "R", "I", "V", "A", "T", "E">>, <<"A", "P", "I">> >>

SAFE_KEYWORDS ==
    << <<"P", "A", "T", "H">>, <<"D", "I", "R">>, <<"N", "A", "M", "E">>, <<"T", "Y", "P", "E">>, <<"M", "O", "D", "E">>, <<"D", "E", "B", "U", "G">>,
       <<"L", "E", "V", "E", "L">>, <<"H", "O", "S", "T">>, <<"P", "O", "R", "T">>, <<"V", "E", "R", "S", "I", "O", "N">>, <<"E", "N", "A", "B", "L", "E", "D">>, <<"D", "I", "S", "A", "B", "L", "E", "D">> >>

AMBIGUOUS_KEYWORDS == << <<"U", "R", "L">>, <<"I", "D">>, <<"E", "N", "D", "P", "O", "I", "N", "T">>, <<"U", "R", "I">> >>

\* SecretDetector(): every field at its default
DefaultDetector ==
    [high_entropy_threshold |-> DEFAULT_HIGH_ENTROPY_THRESHOLD,
     min_secret_length      |-> DEFAULT_MIN_SECRET_LENGTH,
     secret_keywords        |-> SECRET_KEYWORDS,
     safe_keywords          |-> SAFE_KEYWORDS,
     ambiguous_keywords     |-> AMBIGUOUS_KEYWORDS]

----------------------------------------------------------------------------
(* Shannon entropy.                                                        *)

\* math.log2(k) for k in 1..64, in micro-bits (rounded to the nearest)
LOG2_MICRO ==
    <<0, 1000000, 1584963, 2000000, 2321928, 2584963, 2807355, 3000000,
      3169925, 3321928, 3459432, 3584963, 3700440, 3807355, 3906891, 4000000,
      4087463, 4169925, 4247928, 4321928, 4392317, 4459432, 4523562, 4584963,
      4643856, 4700440, 4754888, 4807355, 4857981, 4906891, 4954196, 5000000,
      5044394, 5087463, 5129283, 5169925, 5209453, 5247928, 5285402, 5321928,
      5357552, 5392317, 5426265, 5459432, 5491853, 5523562, 5554589, 5584963,
      5614710, 5643856, 5672425, 5700440, 5727920, 5754888, 5781360, 5807355,
      5832890, 5857981, 5882643, 5906891, 5930737, 5954196, 5977280, 6000000>>

\* char_counts[char]: the number of occurrences of value[i] in value
CharCount(value, i) == Cardinality({j \in 1..Len(value) : value[j] = value[i]})

\* sum over the distinct characters of count * log2(count): each character is
\* counted where it occurs first
RECURSIVE SumCountLog(_, _)
SumCountLog(value, i) ==
    IF i > Len(value) THEN 0
    ELSE (IF \E j \in 1..(i - 1) : value[j] = value[i]
          THEN 0
          ELSE CharCount(value, i) * LOG2_MICRO[CharCount(value, i)])
         + SumCountLog(value, i + 1)

\* mutant: the bits of the whole string, not divided by its length
_calculate_entropy_of_whole_string(self, value) ==
    IF value = <<>> THEN 0
    ELSE Len(value) * LOG2_MICRO[Len(value)] - SumCountLog(value, 1)

\* -sum(p * log2(p)) with p = count / length, which is
\* log2(length) - sum(count * log2(count)) / length
_calculate_entropy(self, value) ==
    IF value = <<>> THEN 0
    ELSE (Len(value) * LOG2_MICRO[Len(value)] - SumCountLog(value, 1)) \div Len(value)

----------------------------------------------------------------------------
(* The value shapes.                                                       *)

_is_boolean_value(self, value) ==
    lower(value) \in { <<"t", "r", "u", "e">>, <<"f", "a", "l", "s", "e">>, <<"y", "e", "s">>, <<"n", "o">>, <<"1">>, <<"0">>, <<"o", "n">>, <<"o", "f", "f">> }

\* digitpart of the float grammar, digit (["_"] digit)*: the index after the
\* longest digitpart that starts at i, or i when none starts there
RECURSIVE DigitPartEnd(_, _)
DigitPartEnd(s, i) ==
    IF i > Len(s) \/ s[i] \notin DIGITS THEN i
    ELSE IF i + 1 <= Len(s) /\ s[i + 1] \in DIGITS THEN DigitPartEnd(s, i + 1)
    ELSE IF i + 2 <= Len(s) /\ s[i + 1] = "_" /\ s[i + 2] \in DIGITS
         THEN DigitPartEnd(s, i + 2)
    ELSE i + 1

\* the index after an optional sign at i
SignEnd(s, i) == IF i <= Len(s) /\ s[i] \in {"+", "-"} THEN i + 1 ELSE i

\* [exponent] then the end of s, at d
ExponentToEnd(s, d) ==
    IF d <= Len(s) /\ s[d] \in {"e", "E"}
    THEN /\ DigitPartEnd(s, SignEnd(s, d + 1)) > SignEnd(s, d + 1)
         /\ DigitPartEnd(s, SignEnd(s, d + 1)) = Len(s) + 1
    ELSE d = Len(s) + 1

\* digitpart ["." [digitpart]] | "." digitpart from a, where b is the index
\* after the digitpart at a, then the exponent and the end of s
DecimalToEnd(s, a, b) ==
    IF b <= Len(s) /\ s[b] = "."
    THEN /\ b > a \/ DigitPartEnd(s, b + 1) > b + 1
         /\ ExponentToEnd(s, DigitPartEnd(s, b + 1))
    ELSE b > a /\ ExponentToEnd(s, b)

\* s is a float literal whose sign, if any, ends before a
FloatAfterSign(s, a) ==
    \/ lower(SubSeq(s, a, Len(s))) \in { <<"i", "n", "f">>, <<"i", "n", "f", "i", "n", "i", "t", "y">>, <<"n", "a", "n">> }
    \/ DecimalToEnd(s, a, DigitPartEnd(s, a))

\* float(s) does not raise ValueError: surrounding whitespace is dropped, then
\* [sign] (infinity | nan | decimal number with optional exponent)
ParsesAsFloat(s) == FloatAfterSign(strip(s), SignEnd(strip(s), 1))

_is_numeric_value(self, value) == ParsesAsFloat(value)

\* \d+ at i: the index after the longest run of digits starting at i
RECURSIVE DigitsEnd(_, _)
DigitsEnd(s, i) == IF i <= Len(s) /\ s[i] \in DIGITS THEN DigitsEnd(s, i + 1) ELSE i

\* [\w.]+ at i: the index after the longest run of word characters and dots
RECURSIVE WordDotEnd(_, _)
WordDotEnd(s, i) ==
    IF i <= Len(s) /\ (IsWordChar(s[i]) \/ s[i] = ".") THEN WordDotEnd(s, i + 1) ELSE i

\* (\.\d+){0,3}: the index after at most n groups starting at i
RECURSIVE DotGroupsEnd(_, _, _)
DotGroupsEnd(s, i, n) ==
    IF n > 0 /\ i <= Len(s) /\ s[i] = "." /\ DigitsEnd(s, i + 1) > i + 1
    THEN DotGroupsEnd(s, DigitsEnd(s, i + 1), n - 1)
    ELSE i

\* (<lead>[\w.]+)? at i: the index after the group, or i when it does not match
TagEnd(s, i, lead) ==
    IF i <= Len(s) /\ s[i] = lead /\ WordDotEnd(s, i + 1) > i + 1
    THEN WordDotEnd(s, i + 1)
    ELSE i

\* \d+(\.\d+){0,3}(-[\w.]+)?(\+[\w.]+)? spans s from a to its end
VersionFrom(s, a) ==
    /\ DigitsEnd(s, a) > a
    /\ TagEnd(s, TagEnd(s, DotGroupsEnd(s, DigitsEnd(s, a), 3), "-"), "+") = Len(s) + 1

\* v?\d+(\.\d+){0,3}(-[\w.]+)?(\+[\w.]+)? spans the whole of s
VersionShape(s) == VersionFrom(s, IF s # <<>> /\ s[1] = "v" THEN 2 ELSE 1)

_is_version_string(self, value) == \E body \in DollarBodies(value) : VersionShape(body)

\* [A-Za-z0-9_-]
IsKeyChar(c) == isalnum(c) \/ c \in {"_", "-"}

\* [A-Za-z0-9+/=]
IsBase64Char(c) == isalnum(c) \/ c \in {"+", "/", "="}

AllIn(s, InClass(_)) == \A i \in 1..Len(s) : InClass(s[i])

_matches_api_key_pattern(self, value) ==
    /\ Len(value) >= 20
    /\ \E body \in DollarBodies(value) : Len(body) >= 20 /\ AllIn(body, IsKeyChar)

\* eyJ[A-Za-z0-9_-]+
JwtSegment(s) == startswith(s, <<"e", "y", "J">>) /\ Len(s) >= 4 /\ AllIn(s, IsKeyChar)

\* the three dot-separated segments of a JWT
JwtParts(parts) ==
    /\ Len(parts) = 3
    /\ JwtSegment(parts[1])
    /\ JwtSegment(parts[2])
    /\ Len(parts[3]) >= 1 /\ AllIn(parts[3], IsKeyChar)

_matches_jwt_pattern(self, value) ==
    \E body \in DollarBodies(value) : JwtParts(split(body, "."))

_matches_base64_secret_pattern(self, value) ==
    /\ Len(value) >= 16
    /\ \E body \in DollarBodies(value) : Len(body) >= 16 /\ AllIn(body, IsBase64Char)
    /\ \/ endswith(value, <<"=", "=">>) \/ endswith(value, <<"=">>)
       \/ 10 * Cardinality({i \in 1..Len(value) : isalnum(value[i])}) > 9 * Len(value)

\* the length of the https?:// that starts value (matched ignoring case), or 0
SchemeLen(value) ==
    IF startswith(lower(value), <<"h", "t", "t", "p", ":", "/", "/">>) THEN 7
    ELSE IF startswith(lower(value), <<"h", "t", "t", "p", "s", ":", "/", "/">>) THEN 8
    ELSE 0

\* [^/]+:[^@]+@ right after the first n characters of value
CredentialsAfter(value, n) ==
    \E p \in (n + 2)..Len(value) :
        /\ value[p] = ":"
        /\ \A i \in (n + 1)..(p - 1) : value[i] # "/"
        /\ \E q \in (p + 2)..Len(value) :
              /\ value[q] = "@"
              /\ \A i \in (p + 1)..(q - 1) : value[i] # "@"

\* re.match(r"https?://[^/]+:[^@]+@", value, re.IGNORECASE)
_contains_credentials_in_url(self, value) ==
    SchemeLen(value) > 0 /\ CredentialsAfter(value, SchemeLen(value))

----------------------------------------------------------------------------
(* SecretDetector: template_value and the three stages of detect.          *)

\* "if result: return result", else what follows
OrElse(result, otherwise) == IF IsResult(result) THEN result ELSE otherwise

\* the least element of a non-empty set of list indices: the first hit of a
\* for loop that returns from its body
First(S) == CHOOSE i \in S : \A j \in S : i <= j

\* mutant: the name is wrapped whatever it starts with
Placeholder_always_wrapped(normalized_key) == <<"$", "{">> \o normalized_key \o <<"}">>

\* f"${{{normalized_key}}}" unless normalized_key starts with '$'
Placeholder(normalized_key) ==
    IF ~startswith(normalized_key, <<"$">>)
    THEN <<"$", "{">> \o normalized_key \o <<"}">>
    ELSE normalized_key

template_value(self, key) == Placeholder(replace(upper(key), "-", "_"))

\* any(sk in part for sk in self.secret_keywords)
HasSecretKeyword(self, part) ==
    \E i \in 1..Len(self.secret_keywords) : Contains(self.secret_keywords[i], part)

\* the safe keywords for which the body of the first loop returns SAFE
\* mutant: is_only_safe is never cleared
IsOnlySafe_unchecked(self, parts) == TRUE

\* is_only_safe: no part is a non-safe word that contains a secret keyword
IsOnlySafe(self, parts) ==
    ~\E p \in 1..Len(parts) :
        /\ parts[p] # <<>>
        /\ ~InList(parts[p], self.safe_keywords)
        /\ HasSecretKeyword(self, parts[p])

\* mutant: the key is safe only when every part of it is a safe keyword
SafeHitsIn_every_part_safe(self, key_upper, parts) ==
    {i \in 1..Len(self.safe_keywords) :
        /\ InList(self.safe_keywords[i], parts)
        /\ \A p \in 1..Len(parts) : InList(parts[p], self.safe_keywords)}

SafeHitsIn(self, key_upper, parts) ==
    {i \in 1..Len(self.safe_keywords) :
        /\ Contains(self.safe_keywords[i], key_upper)
        /\ InList(self.safe_keywords[i], parts)
        /\ IsOnlySafe(self, parts)}

SafeHits(self, key_upper) == SafeHitsIn(self, key_upper, split(key_upper, "_"))

\* mutant: a secret keyword counts only as a whole part of the key
SecretHits_whole_part(self, key_upper) ==
    {i \in 1..Len(self.secret_keywords) :
        InList(self.secret_keywords[i], split(key_upper, "_"))}

SecretHits(self, key_upper) ==
    {i \in 1..Len(self.secret_keywords) : Contains(self.secret_keywords[i], key_upper)}

\* mutant: an ambiguous keyword counts only as a whole part of the key
AmbiguousHits_whole_part(self, key_upper) ==
    {i \in 1..Len(self.ambiguous_keywords) :
        InList(self.ambiguous_keywords[i], split(key_upper, "_"))}

AmbiguousHits(self, key_upper) ==
    {i \in 1..Len(self.ambiguous_keywords) : Contains(self.ambiguous_keywords[i], key_upper)}

\* for safe_kw in self.safe_keywords: the first safe keyword that is one of
\* the parts of the key, when is_only_safe
SafeLoop(self, key_upper, value) ==
    IF SafeHits(self, key_upper) # {}
    THEN SecretDetectionResult(SAFE,
             <<"Key contains safe keyword",
               self.safe_keywords[First(SafeHits(self, key_upper))]>>,
             value, None)
    ELSE NoResult

\* for secret_kw in self.secret_keywords: the first one found in the key
SecretLoop(self, key_upper, value) ==
    IF SecretHits(self, key_upper) # {}
    THEN SecretDetectionResult(HIGH,
             <<"Key contains secret keyword",
               self.secret_keywords[First(SecretHits(self, key_upper))]>>,
             value, Some(template_value(self, key_upper)))
    ELSE NoResult

\* mutant: an ambiguous key whose value shows no evidence returns SAFE at
\* once instead of falling through to the later stages
AmbiguousLoop_early_return(self, key_upper, value) ==
    IF AmbiguousHits(self, key_upper) = {} THEN NoResult
    ELSE IF _contains_credentials_in_url(self, value)
    THEN SecretDetectionResult(HIGH,
             <<"Key contains with embedded credentials",
               self.ambiguous_keywords[First(AmbiguousHits(self, key_upper))]>>,
             value, Some(template_value(self, key_upper)))
    ELSE IF _calculate_entropy(self, value) > self.high_entropy_threshold
    THEN SecretDetectionResult(MEDIUM,
             <<"Key contains with high entropy value",
               self.ambiguous_keywords[First(AmbiguousHits(self, key_upper))]>>,
             value, Some(template_value(self, key_upper)))
    ELSE SecretDetectionResult(SAFE, <<"No secret indicators detected">>, value, None)

\* for ambig_kw in self.ambiguous_keywords: the two tests read the value
\* only, so the first keyword found in the key decides
AmbiguousLoop(self, key_upper, value) ==
    IF AmbiguousHits(self, key_upper) = {} THEN NoResult
    ELSE IF _contains_credentials_in_url(self, value)
    THEN SecretDetectionResult(HIGH,
             <<"Key contains with embedded credentials",
               self.ambiguous_keywords[First(AmbiguousHits(self, key_upper))]>>,
             value, Some(template_value(self, key_upper)))
    ELSE IF _calculate_entropy(self, value) > self.high_entropy_threshold
    THEN SecretDetectionResult(MEDIUM,
             <<"Key contains with high entropy value",
               self.ambiguous_keywords[First(AmbiguousHits(self, key_upper))]>>,
             value, Some(template_value(self, key_upper)))
    ELSE NoResult

_keyword_match(self, key_upper, value) ==
    IF key_upper = <<>> THEN NoResult
    ELSE OrElse(SafeLoop(self, key_upper, value),
         OrElse(SecretLoop(self, key_upper, value),
                AmbiguousLoop(self, key_upper, value)))

\* mutant: the placeholder is generated even without a key name
TemplateIfKey_always(self, key_upper) == Some(template_value(self, key_upper))

\* self.template_value(key_upper) if key_upper else None
TemplateIfKey(self, key_upper) ==
    IF key_upper # <<>> THEN Some(template_value(self, key_upper)) ELSE None

\* mutant: a URL without credentials is left to the entropy stage
_analyze_url_credentials_only(self, value) ==
    IF SchemeLen(value) > 0 /\ _contains_credentials_in_url(self, value)
    THEN SecretDetectionResult(HIGH, <<"URL contains embedded credentials">>, value, None)
    ELSE NoResult

_analyze_url(self, value) ==
    IF SchemeLen(value) = 0 THEN NoResult
    ELSE IF _contains_credentials_in_url(self, value)
    THEN SecretDetectionResult(HIGH, <<"URL contains embedded credentials">>, value, None)
    ELSE SecretDetectionResult(SAFE, <<"URL without embedded credentials">>, value, None)

\* mutant: the secret shapes are tested before the benign shapes
_pattern_match_secret_shapes_first(self, value, key_upper) ==
    IF Len(value) >= self.min_secret_length /\ _matches_api_key_pattern(self, value)
    THEN SecretDetectionResult(HIGH,
             <<"Matches API key pattern (20+ alphanumeric characters)">>,
             value, TemplateIfKey(self, key_upper))
    ELSE IF Len(value) >= self.min_secret_length /\ _matches_jwt_pattern(self, value)
    THEN SecretDetectionResult(HIGH, <<"Matches JWT token pattern">>,
             value, TemplateIfKey(self, key_upper))
    ELSE IF /\ Len(value) >= self.min_secret_length
            /\ _matches_base64_secret_pattern(self, value)
            /\ _calculate_entropy(self, value) > self.high_entropy_threshold
    THEN SecretDetectionResult(HIGH,
             <<"Matches base64 encoded secret pattern with high entropy">>,
             value, TemplateIfKey(self, key_upper))
    ELSE IF _is_boolean_value(self, value)
    THEN SecretDetectionResult(SAFE, <<"Boolean value">>, value, None)
    ELSE IF _is_numeric_value(self, value)
    THEN SecretDetectionResult(SAFE, <<"Numeric value">>, value, None)
    ELSE IF _is_version_string(self, value)
    THEN SecretDetectionResult(SAFE, <<"Version string">>, value, None)
    ELSE IF Len(value) < self.min_secret_length
    THEN SecretDetectionResult(SAFE,
             <<"Value too short", Len(value), self.min_secret_length>>, value, None)
    ELSE _analyze_url(self, value)

\* mutant: the pattern stage has no length rule
_pattern_match_no_length_rule(self, value, key_upper) ==
    IF _is_boolean_value(self, value)
    THEN SecretDetectionResult(SAFE, <<"Boolean value">>, value, None)
    ELSE IF _is_numeric_value(self, value)
    THEN SecretDetectionResult(SAFE, <<"Numeric value">>, value, None)
    ELSE IF _is_version_string(self, value)
    THEN SecretDetectionResult(SAFE, <<"Version string">>, value, None)
    ELSE IF _matches_api_key_pattern(self, value)
    THEN SecretDetectionResult(HIGH,
             <<"Matches API key pattern (20+ alphanumeric characters)">>,
             value, TemplateIfKey(self, key_upper))
    ELSE IF _matches_jwt_pattern(self, value)
    THEN SecretDetectionResult(HIGH, <<"Matches JWT token pattern">>,
             value, TemplateIfKey(self, key_upper))
    ELSE IF /\ _matches_base64_secret_pattern(self, value)
            /\ _calculate_entropy(self, value) > self.high_entropy_threshold
    THEN SecretDetectionResult(HIGH,
             <<"Matches base64 encoded secret pattern with high entropy">>,
             value, TemplateIfKey(self, key_upper))
    ELSE _analyze_url(self, value)

_pattern_match(self, value, key_upper) ==
    IF _is_boolean_value(self, value)
    THEN SecretDetectionResult(SAFE, <<"Boolean value">>, value, None)
    ELSE IF _is_numeric_value(self, value)
    THEN SecretDetectionResult(SAFE, <<"Numeric value">>, value, None)
    ELSE IF _is_version_string(self, value)
    THEN SecretDetectionResult(SAFE, <<"Version string">>, value, None)
    ELSE IF Len(value) < self.min_secret_length
    THEN SecretDetectionResult(SAFE,
             <<"Value too short", Len(value), self.min_secret_length>>, value, None)
    ELSE IF _matches_api_key_pattern(self, value)
    THEN SecretDetectionResult(HIGH,
             <<"Matches API key pattern (20+ alphanumeric characters)">>,
             value, TemplateIfKey(self, key_upper))
    ELSE IF _matches_jwt_pattern(self, value)
    THEN SecretDetectionResult(HIGH, <<"Matches JWT token pattern">>,
             value, TemplateIfKey(self, key_upper))
    ELSE IF /\ _matches_base64_secret_pattern(self, value)
            /\ _calculate_entropy(self, value) > self.high_entropy_threshold
    THEN SecretDetectionResult(HIGH,
             <<"Matches base64 encoded secret pattern with high entropy">>,
             value, TemplateIfKey(self, key_upper))
    ELSE _analyze_url(self, value)

\* f"{entropy:.2f}": the entropy rounded to hundredths of a bit
Format2f(entropy) == (entropy + 5000) \div 10000

\* mutant: the placeholder is made from the value, not from the key
_entropy_analysis_templates_value(self, value, key_upper) ==
    IF Len(value) < self.min_secret_length THEN NoResult
    ELSE IF _calculate_entropy(self, value) > self.high_entropy_threshold
    THEN SecretDetectionResult(MEDIUM,
             <<"High entropy value (bits/char)", Format2f(_calculate_entropy(self, value))>>,
             value, Some(template_value(self, value)))
    ELSE NoResult

\* mutant: an entropy equal to the threshold counts as high
_entropy_analysis_at_threshold(self, value, key_upper) ==
    IF Len(value) < self.min_secret_length THEN NoResult
    ELSE IF _calculate_entropy(self, value) >= self.high_entropy_threshold
    THEN SecretDetectionResult(MEDIUM,
             <<"High entropy value (bits/char)", Format2f(_calculate_entropy(self, value))>>,
             value, TemplateIfKey(self, key_upper))
    ELSE NoResult

_entropy_analysis(self, value, key_upper) ==
    IF Len(value) < self.min_secret_length THEN NoResult
    ELSE IF _calculate_entropy(self, value) > self.high_entropy_threshold
    THEN SecretDetectionResult(MEDIUM,
             <<"High entropy value (bits/char)", Format2f(_calculate_entropy(self, value))>>,
             value, TemplateIfKey(self, key_upper))
    ELSE NoResult

\* mutant: only the empty value is caught, "if not value:"
IsBlank_empty_only(value) == value = <<>>

\* not value or not value.strip()
IsBlank(value) == value = <<>> \/ strip(value) = <<>>

\* key_name.upper() if key_name else ""
KeyUpper(key_name) == IF key_name # <<>> THEN upper(key_name) ELSE <<>>

\* mutant: the value patterns are consulted before the key name
detect_patterns_first(self, value, key_name) ==
    IF IsBlank(value)
    THEN SecretDetectionResult(SAFE, <<"Empty or whitespace-only value">>, value, None)
    ELSE OrElse(_pattern_match(self, value, KeyUpper(key_name)),
         OrElse(_keyword_match(self, KeyUpper(key_name), value),
         OrElse(_entropy_analysis(self, value, KeyUpper(key_name)),
                SecretDetectionResult(SAFE, <<"No secret indicators detected">>, value, None))))

detect(self, value, key_name) ==
    IF IsBlank(value)
    THEN SecretDetectionResult(SAFE, <<"Empty or whitespace-only value">>, value, None)
    ELSE OrElse(_keyword_match(self, KeyUpper(key_name), value),
         OrElse(_pattern_match(self, value, KeyUpper(key_name)),
         OrElse(_entropy_analysis(self, value, KeyUpper(key_name)),
                SecretDetectionResult(SAFE, <<"No secret indicators detected">>, value, None))))

----------------------------------------------------------------------------
(* Configuration structures and the recursive templater.                   *)
(* A node is [type, val]: a str with its characters, a dict with its list  *)
(* of entries [key, value] in insertion order, a list with its elements,   *)
(* or another scalar (int, bool, None) with its printed form.              *)

Str(s) == [type |-> "str", val |-> s]

Dict(entries) == [type |-> "dict", val |-> entries]

List(items) == [type |-> "list", val |-> items]

Scalar(type, repr) == [type |-> type, val |-> repr]

Entry(key, value) == [key |-> key, value |-> value]

\* what a call of _template_dict_recursive leaves: the object it returns and
\* the templated_keys list it appended to
Processed(obj, templated_keys) == [obj |-> obj, templated_keys |-> templated_keys]

\* mutant: the placeholder wraps the value instead of naming the key
Replacement_wraps_value(detector, detection, key) ==
    <<"$", "{">> \o detection.original_value \o <<"}">>

\* mutant: without a templated_value from detect a fixed name is written
Replacement_fallback_fixed_name(detector, detection, key) ==
    IF Truthy(detection.templated_value)
    THEN detection.templated_value.str
    ELSE <<"$", "{", "S", "E", "C", "R", "E", "T", "}">>

\* the value written for a str entry that detect classified HIGH or MEDIUM
Replacement(detector, detection, key) ==
    IF Truthy(detection.templated_value)
    THEN detection.templated_value.str
    ELSE template_value(detector, key)

\* mutant: the key is put at the front of templated_keys
WrittenStr_prepends(key, value, detector, templated_keys, detection) ==
    IF detection.confidence \in {HIGH, MEDIUM}
    THEN Processed(Str(Replacement(detector, detection, key)), <<key>> \o templated_keys)
    ELSE Processed(value, templated_keys)

\* the branch of the loop body for a str value, given what detect returned
WrittenStr(key, value, detector, templated_keys, detection) ==
    IF detection.confidence \in {HIGH, MEDIUM}
    THEN Processed(Str(Replacement(detector, detection, key)), Append(templated_keys, key))
    ELSE Processed(value, templated_keys)

\* f"{current_path}.{key}" if current_path else key
PathOf(current_path, key) ==
    IF current_path # <<>> THEN current_path \o <<".">> \o key ELSE key

\* result[key] = written.obj, with the templated_keys list as written left it
Assigned(result, key, written) ==
    Processed(Append(result, Entry(key, written.obj)), written.templated_keys)

\* mutant: the list is built back to front
Collected_reversed(result, written) ==
    Processed(<<written.obj>> \o result, written.templated_keys)

\* item appended to the list being built
Collected(result, written) ==
    Processed(Append(result, written.obj), written.templated_keys)

RECURSIVE _template_dict_recursive(_, _, _, _)
RECURSIVE TemplateEntries(_, _, _, _, _)
RECURSIVE EntryStep(_, _, _, _, _)
RECURSIVE TemplateItems(_, _, _, _, _)

\* mutant: a str value is classified and named by its path, not by its key
EntryStep_classifies_by_path(key, value, detector, templated_keys, path) ==
    IF value.type = "str"
    THEN WrittenStr(path, value, detector, templated_keys,
                    detect(detector, value.val, path))
    ELSE _template_dict_recursive(value, detector, templated_keys, path)

\* one pass of the body of the for loop over obj.items(): the value written
\* for key and the templated_keys list after the pass
EntryStep(key, value, detector, templated_keys, path) ==
    IF value.type = "str"
    THEN WrittenStr(key, value, detector, templated_keys,
                    detect(detector, value.val, key))
    ELSE _template_dict_recursive(value, detector, templated_keys, path)

\* the for loop over obj.items(), from entry i on; done holds the entries of
\* result written so far and the templated_keys list
TemplateEntries(entries, i, done, detector, current_path) ==
    IF i > Len(entries) THEN Processed(Dict(done.obj), done.templated_keys)
    ELSE TemplateEntries(entries, i + 1,
             Assigned(done.obj, entries[i].key,
                      EntryStep(entries[i].key, entries[i].value, detector,
                                done.templated_keys,
                                PathOf(current_path, entries[i].key))),
             detector, current_path)

\* the list comprehension over obj, from element i on
TemplateItems(items, i, done, detector, current_path) ==
    IF i > Len(items) THEN Processed(List(done.obj), done.templated_keys)
    ELSE TemplateItems(items, i + 1,
             Collected(done.obj,
                       _template_dict_recursive(items[i], detector,
                                                done.templated_keys, current_path)),
             detector, current_path)

\* mutant: a str handed to the helper is classified under the current path
_template_dict_recursive_classifies_strings(obj, detector, templated_keys, current_path) ==
    IF obj.type = "dict"
    THEN TemplateEntries(obj.val, 1, Processed(<<>>, templated_keys), detector, current_path)
    ELSE IF obj.type = "list"
    THEN TemplateItems(obj.val, 1, Processed(<<>>, templated_keys), detector, current_path)
    ELSE IF obj.type = "str"
    THEN WrittenStr(current_path, obj, detector, templated_keys,
                    detect(detector, obj.val, current_path))
    ELSE Processed(obj, templated_keys)

_template_dict_recursive(obj, detector, templated_keys, current_path) ==
    IF obj.type = "dict"
    THEN TemplateEntries(obj.val, 1, Processed(<<>>, templated_keys), detector, current_path)
    ELSE IF obj.type = "list"
    THEN TemplateItems(obj.val, 1, Processed(<<>>, templated_keys), detector, current_path)
    ELSE Processed(obj, templated_keys)

\* returns (result, templated_keys)
Returned(processed) == <<processed.obj, processed.templated_keys>>

template_secrets_in_config(config, detector) ==
    Returned(_template_dict_recursive(config, detector, <<>>, <<>>))

----------------------------------------------------------------------------
(* The inputs the calls are drawn from.                                    *)

\* the most parts a generated key name has
MaxKeyParts == 2

\* the deepest nesting of lists and mappings around a generated leaf
MaxDepth == 1

Range(xs) == {xs[i] : i \in 1..Len(xs)}

\* the default detector, one constructed with high_entropy_threshold=3.0 and
\* one constructed with min_secret_length=24
Detectors ==
    {DefaultDetector,
     [DefaultDetector EXCEPT !.high_entropy_threshold = 3000000],
     [DefaultDetector EXCEPT !.min_secret_length = 24]}

\* values that exercise every rule of detect on both sides of its condition
ShapeValues ==
    Range(<< <<>>, <<" ">>, <<" ", "\t", "\n">>,
             <<"t", "r", "u", "e">>, <<"F", "A", "L", "S", "E">>, <<"Y", "e", "s">>, <<"0">>, <<"o", "n">>, <<"o", "f", "f">>, <<"m", "a", "y", "b", "e">>,
             <<"8", "0", "8", "0">>, <<"3", ".", "1", "4">>, <<"-", "1", "e", "5">>, <<"1", "_", "0", "0", "0">>, <<" ", "1", "2", " ">>, <<"i", "n", "f", "i", "n", "i", "t", "y">>, <<"N", "a", "N">>,
             <<"1", "e">>, <<".">>, <<"1", "_">>, <<"+", ".", "5">>, <<"0", "x", "1", "F">>, <<"1", "2", "3", "4", "5", "6", "7", "8", "9", "0", "1", "2", "3", "4", "5", "6", "7", "8", "9", "0", "1", "2", "3">>,
             <<"v", "2", ".", "1", "4", ".", "1">>, <<"1", ".", "2", ".", "3", ".", "4">>, <<"1", ".", "2", ".", "3", ".", "4", ".", "5">>, <<"1", ".", "0", ".", "0", "-", "r", "c", ".", "1", "+", "b", "u", "i", "l", "d", ".", "5">>, <<"v", "1">>,
             <<"v", "1", ".", "2", "\n">>, <<"1", ".", "2", ".", "3", "-", "a", "b", "c", "d", "e", "f", "g", "h", "i", "j", "k", "l", "m", "n", "o", "p", "q", "r", "s", "t", "u", "v", "w", "x", "y", "z">>, <<"2", "0", "2", "4", "-", "0", "1", "-", "1", "5", "-", "r", "e", "l", "e", "a", "s", "e", "-", "b", "u", "i", "l", "d", "-", "x">>,
             <<"a", "b", "c">>, <<"s", "e", "c", "r", "e", "t">>, <<"p", "a", "s", "s", "1", "2", "3">>, <<"a", "1", "b", "2", "c", "3", "d", "4">>,
             <<"g", "h", "p", "_", "1", "A", "2", "b", "3", "C", "4", "d", "5", "E", "6", "f", "7", "G", "8", "h", "9", "I", "0", "j", "k", "l", "m", "n", "o", "p">>, <<"s", "k", "_", "l", "i", "v", "e", "_", "a", "b", "c", "d", "e", "f", "1", "2", "3", "4", "5", "6", "7", "8", "9", "0", "A", "B", "C", "D", "E", "F">>,
             <<"a", "b", "c", "d", "e", "f", "g", "h", "i", "j", "k", "l", "m", "n", "o", "p", "q", "r", "s", "t">>, <<"a", "b", "c", "d", "e", "f", "g", "h", "i", "j", "k", "l", "m", "n", "o", "p", "q", "r", "s">>, <<"a", "a", "a", "a", "a", "a", "a", "a", "a", "a", "a", "a", "a", "a", "a", "a", "a", "a", "a", "a">>,
             <<"a", "b", "c", "d", "e", "f", "g", "h", "i", "j", "k", "l", "m", "n", "o", "p", "q", "r", "s", "t", "\n">>,
             <<"e", "y", "J", "h", "b", "G", "c", "i", "O", "i", "J", "9", ".", "e", "y", "J", "z", "d", "W", "I", "i", "O", "i", "I", "x", "I", "n", "0", ".", "c", "2", "l", "n">>, <<"e", "y", "J", "a", ".", "e", "y", "J", "b", ".", "c">>, <<"e", "y", "J", ".", "e", "y", "J", "b", ".", "c">>,
             <<"e", "y", "J", "a", ".", "e", "y", "J", "b", ".", "c", ".", "d">>, <<"e", "y", "J", "h", "b", "G", "c", "i", "O", "i", "J", "I", "U", "z", "I", "1", "N", "i", "J", "9", ".", "e", "y", "J", "z", "d", "W", "I", "i", "O", "i", "J", "4", "I", "n", "0", ".", "c", "2", "l", "n", "b", "m", "F", "0", "d", "X", "J", "l">>,
             <<"0", "1", "2", "3", "4", "5", "6", "7", "8", "9", "a", "b", "c", "d", "e", "f", "A", "B", "C", "D", "E", "F", "+", "/">>, <<"M", "T", "I", "z", "N", "D", "U", "2", "N", "z", "g", "5", "M", "G", "F", "i", "Y", "2", "R", "l", "Z", "m", "d", "o", "a", "W", "p", "r", "b", "G", "1", "u", "b", "3", "A", "=">>,
             <<"Q", "U", "J", "D", "R", "E", "V", "G", "R", "0", "h", "J", "S", "k", "t", "M", "T", "U", "5", "P", "U", "F", "F", "S", "U", "1", "R", "V", "V", "l", "d", "Y", "W", "V", "o", "=">>, <<"d", "G", "V", "z", "d", "H", "N", "l", "Y", "3", "J", "l", "d", "A", "=", "=">>,
             <<"a", "b", "+", "/", "a", "b", "+", "/", "a", "b", "+", "/", "a", "b", "+", "/">>, <<"a", "b", "c", "d", "e", "f", "g", "h", "i", "j", "k", "l", "m", "n", "o", "p", "+", "/">>, <<"a", "b", "c", "d", "e", "f", "g", "h", "i", "j", "k", "l", "m", "n", "o", "p">>,
             <<"X", "k", "9", "#", "m", "P", "2", "$", "v", "L", "7", "@", "n", "Q", "4", "!", "w", "R", "8", "%", "t", "Y", "6", "^", "z", "B", "3", "&">>, <<"a", "b", "c", "d", "e", "f", "g", "h", "i", " ", "j", "k", "l", "m", "n", "o", "p", "q", "r", "s", "t", "u", "v", "w", "x", "y">>,
             <<"h", "e", "l", "l", "o", " ", "w", "o", "r", "l", "d">>, <<"l", "o", "c", "a", "l", "h", "o", "s", "t", ":", "8", "0", "8", "0">>, <<"/", "u", "s", "r", "/", "l", "o", "c", "a", "l", "/", "b", "i", "n">>, <<"n", "p", "x", " ", "-", "y", " ", "s", "e", "r", "v", "e", "r">>,
             <<"$", "{", "A", "P", "I", "_", "K", "E", "Y", "}">>, <<"$", "{", "G", "I", "T", "H", "U", "B", "_", "T", "O", "K", "E", "N", "}">>, <<"$", "A", "P", "I", "_", "K", "E", "Y">> >>)

URL_SCHEMES == << <<"h", "t", "t", "p", ":", "/", "/">>, <<"h", "t", "t", "p", "s", ":", "/", "/">>, <<"H", "T", "T", "P", "S", ":", "/", "/">>, <<"f", "t", "p", ":", "/", "/">>, <<"s", "e", "e", " ", "h", "t", "t", "p", ":", "/", "/">> >>

URL_RESTS ==
    << <<"h", ".", "i", "o">>, <<"d", "b", ".", "e", "x", "a", "m", "p", "l", "e", ".", "c", "o", "m", ":", "5", "4", "3", "2", "/", "m", "y", "d", "b">>, <<"u", "s", "e", "r", ":", "p", "a", "s", "s", "1", "2", "3", "@", "d", "b", ".", "e", "x", "a", "m", "p", "l", "e", ".", "c", "o", "m", ":", "5", "4", "3", "2", "/", "m", "y", "d", "b">>,
       <<"u", "s", "e", "r", "@", "h", ".", "i", "o", ":", "8", "0">>, <<"u", "s", "e", "r", ":", "@", "h", ".", "i", "o">>, <<":", "p", "a", "s", "s", "@", "h", ".", "i", "o">>, <<"a", ":", "b", ":", "c", "@", "h", ".", "i", "o">>,
       <<"h", "o", "s", "t", ":", "8", "0", "8", "0", "/", "p", "a", "t", "h", "@", "x">>, <<"h", "o", "s", "t", "/", "u", ":", "p", "@", "x">>, <<"u", "s", "e", "r", ":", "p", "a", "s", "s", "@">>,
       <<"a", "p", "i", ".", "e", "x", "a", "m", "p", "l", "e", ".", "c", "o", "m", "/", "v", "1", "/", "i", "t", "e", "m", "s", "?", "q", "=", "A", "b", "C", "d", "E", "f", "G", "h", "I", "j", "K", "l", "M", "n", "O", "q", "R", "s", "T", "u", "V", "w", "X", "y", "Z">> >>

UrlValues ==
    {URL_SCHEMES[i] \o URL_RESTS[j] : i \in 1..Len(URL_SCHEMES), j \in 1..Len(URL_RESTS)}

Values == ShapeValues \cup UrlValues

\* one value of each outcome, paired with every generated key name
CoreValues ==
    Range(<< <<>>, <<"t", "r", "u", "e">>, <<"8", "0", "8", "0">>, <<"v", "2", ".", "1", "4", ".", "1">>, <<"a", "b", "c">>, <<"a", "1", "b", "2", "c", "3", "d", "4">>,
             <<"1", ".", "2", ".", "3", "-", "a", "b", "c", "d", "e", "f", "g", "h", "i", "j", "k", "l", "m", "n", "o", "p", "q", "r", "s", "t", "u", "v", "w", "x", "y", "z">>,
             <<"s", "k", "_", "l", "i", "v", "e", "_", "a", "b", "c", "d", "e", "f", "1", "2", "3", "4", "5", "6", "7", "8", "9", "0", "A", "B", "C", "D", "E", "F">>, <<"e", "y", "J", "a", ".", "e", "y", "J", "b", ".", "c">>,
             <<"0", "1", "2", "3", "4", "5", "6", "7", "8", "9", "a", "b", "c", "d", "e", "f", "A", "B", "C", "D", "E", "F", "+", "/">>, <<"X", "k", "9", "#", "m", "P", "2", "$", "v", "L", "7", "@", "n", "Q", "4", "!", "w", "R", "8", "%", "t", "Y", "6", "^", "z", "B", "3", "&">>,
             <<"l", "o", "c", "a", "l", "h", "o", "s", "t", ":", "8", "0", "8", "0">>, <<"h", "e", "l", "l", "o", " ", "w", "o", "r", "l", "d">>, <<"$", "{", "A", "P", "I", "_", "K", "E", "Y", "}">>,
             <<"h", "t", "t", "p", "s", ":", "/", "/", "u", "s", "e", "r", ":", "p", "a", "s", "s", "1", "2", "3", "@", "d", "b", ".", "e", "x", "a", "m", "p", "l", "e", ".", "c", "o", "m", ":", "5", "4", "3", "2", "/", "m", "y", "d", "b">>, <<"h", "t", "t", "p", "s", ":", "/", "/", "h", ".", "i", "o">> >>)

\* key names, paired with every value
CoreKeys ==
    Range(<< <<>>, <<"A", "P", "I", "_", "K", "E", "Y">>, <<"G", "I", "T", "H", "U", "B", "_", "T", "O", "K", "E", "N">>, <<"g", "i", "t", "h", "u", "b", "_", "t", "o", "k", "e", "n">>, <<"D", "A", "T", "A", "B", "A", "S", "E", "_", "U", "R", "L">>,
             <<"d", "a", "t", "a", "b", "a", "s", "e", "_", "u", "r", "l">>, <<"S", "E", "R", "V", "E", "R", "_", "P", "O", "R", "T">>, <<"D", "E", "B", "U", "G", "_", "M", "O", "D", "E">>, <<"A", "P", "I", "_", "D", "E", "B", "U", "G", "_", "T", "O", "K", "E", "N">>,
             <<"S", "E", "S", "S", "I", "O", "N", "_", "I", "D">>, <<"B", "U", "I", "L", "D", "_", "I", "D">>, <<"a", "p", "i", "-", "k", "e", "y">>, <<"$", "A", "P", "I", "_", "K", "E", "Y">>, <<"$", "{", "A", "P", "I", "_", "K", "E", "Y", "}">>,
             <<"c", "o", "m", "m", "a", "n", "d">>, <<"a", "r", "g", "s">>, <<"t", "i", "m", "e", "o", "u", "t">>, <<"M", "O", "N", "K", "E", "Y">>, <<"V", "I", "D", "E", "O">>, <<"H", "O", "S", "T", "N", "A", "M", "E">>,
             <<"A", "U", "T", "H", "O", "R", "_", "N", "A", "M", "E">>, <<"T", "O", "K", "E", "N", "_", "P", "A", "T", "H">>, <<"E", "N", "D", "P", "O", "I", "N", "T", "_", "U", "R", "L", "_", "P", "A", "T", "H">>, <<"K", "E", "Y", "_", "U", "R", "L">>,
             <<"d", "e", "b", "u", "g", "-", "m", "o", "d", "e">>, <<"$", "u", "r", "l">>, <<"x">> >>)

\* the parts generated key names are joined from with '_'
KEY_PARTS ==
    << <<"A", "P", "I">>, <<"t", "o", "k", "e", "n">>, <<"D", "E", "B", "U", "G">>, <<"P", "O", "R", "T">>, <<"U", "R", "L">>, <<"i", "d">>, <<"M", "Y">>, <<"K", "e", "y", "s">>, <<>> >>

RECURSIVE JoinedKeys(_)
JoinedKeys(n) ==
    IF n = 1 THEN Range(KEY_PARTS)
    ELSE {k \o <<"_">> \o p : k \in JoinedKeys(n - 1), p \in Range(KEY_PARTS)}

GenKeys == UNION {JoinedKeys(n) : n \in 1..MaxKeyParts}

Keys == CoreKeys \cup GenKeys

\* leaves of a configuration: str values and other scalars
LeafValues ==
    Range(<< <<"s", "k", "_", "l", "i", "v", "e", "_", "a", "b", "c", "d", "e", "f", "1", "2", "3", "4", "5", "6", "7", "8", "9", "0", "A", "B", "C", "D", "E", "F">>, <<"l", "o", "c", "a", "l", "h", "o", "s", "t", ":", "8", "0", "8", "0">>, <<"$", "{", "A", "P", "I", "_", "K", "E", "Y", "}">> >>)

LeafNodes ==
    {Str(v) : v \in LeafValues} \cup {Scalar("int", <<"3", "0">>), Scalar("NoneType", <<"N", "o", "n", "e">>)}

ConfigKeys == Range(<< <<"a", "p", "i", "_", "k", "e", "y">>, <<"a", "r", "g", "s">>, <<"n", "a", "m", "e">> >>)

\* a node inside a one-element list, a two-element list or a one-entry mapping
Wrapped(n) ==
    {List(<<n>>), List(<<Scalar("int", <<"3", "0">>), n>>)}
        \cup {Dict(<<Entry(k, n)>>) : k \in ConfigKeys}

RECURSIVE Nested(_)
Nested(d) ==
    IF d = 0 THEN LeafNodes
    ELSE Nested(d - 1) \cup UNION {Wrapped(n) : n \in Nested(d - 1)}

\* config: dict[str, Any] with one entry, or with two entries of distinct keys
Configs ==
    {Dict(<<Entry(k, n)>>) : k \in ConfigKeys, n \in Nested(MaxDepth)}
        \cup {Dict(<<Entry(k[1], n), Entry(k[2], m)>>) :
                 k \in {kk \in ConfigKeys \X ConfigKeys : kk[1] # kk[2]},
                 n \in Nested(MaxDepth), m \in LeafNodes}

EmptyConfig == Dict(<<>>)

\* configurations picked by hand: the same entry in two mappings of one
\* list, an entry below a list below a mapping, and entries with the empty
\* key, for which detect is given no key name
DeepConfigs ==
    {Dict(<<Entry(<<"a", "r", "g", "s">>, List(<<Dict(<<Entry(<<"a", "p", "i", "_", "k", "e", "y">>, Str(<<"s", "k", "_", "l", "i", "v", "e", "_", "a", "b", "c", "d", "e", "f", "1", "2", "3", "4", "5", "6", "7", "8", "9", "0", "A", "B", "C", "D", "E", "F">>))>>),
                                   Dict(<<Entry(<<"a", "p", "i", "_", "k", "e", "y">>, Str(<<"s", "k", "_", "l", "i", "v", "e", "_", "a", "b", "c", "d", "e", "f", "1", "2", "3", "4", "5", "6", "7", "8", "9", "0", "A", "B", "C", "D", "E", "F">>))>>)>>))>>),
     Dict(<<Entry(<<"n", "a", "m", "e">>, Dict(<<Entry(<<"a", "r", "g", "s">>,
                List(<<Dict(<<Entry(<<"a", "r", "g", "s">>, Str(<<"s", "k", "_", "l", "i", "v", "e", "_", "a", "b", "c", "d", "e", "f", "1", "2", "3", "4", "5", "6", "7", "8", "9", "0", "A", "B", "C", "D", "E", "F">>))>>)>>))>>))>>),
     Dict(<<Entry(<<>>, Str(<<"s", "k", "_", "l", "i", "v", "e", "_", "a", "b", "c", "d", "e", "f", "1", "2", "3", "4", "5", "6", "7", "8", "9", "0", "A", "B", "C", "D", "E", "F">>))>>),
     Dict(<<Entry(<<>>, Str(<<"h", "t", "t", "p", "s", ":", "/", "/", "u", "s", "e", "r", ":", "p", "a", "s", "s", "1", "2", "3", "@", "d", "b", ".", "e", "x", "a", "m", "p", "l", "e", ".", "c", "o", "m", ":", "5", "4", "3", "2", "/", "m", "y", "d", "b">>))>>)}

Call(op, value, key_name, config, pass_detector) ==
    [op |-> op, value |-> value, key_name |-> key_name,
     config |-> config, pass_detector |-> pass_detector]

DetectCalls ==
    {Call("detect", v, k, EmptyConfig, TRUE) : v \in Values, k \in CoreKeys}
        \cup {Call("detect", v, k, EmptyConfig, TRUE) : v \in CoreValues, k \in GenKeys}

TemplateValueCalls == {Call("template_value", <<>>, k, EmptyConfig, TRUE) : k \in Keys}

\* pass_detector is false when the detector argument is left at None
TemplateCalls ==
    {Call("template_secrets_in_config", <<>>, <<>>, c, b) :
         c \in Configs \cup DeepConfigs, b \in BOOLEAN}

Calls == DetectCalls \cup TemplateValueCalls \cup TemplateCalls

----------------------------------------------------------------------------
(* The calls as a state machine: the arguments are drawn when the state is *)
(* set up, one action per operation runs the call to its return.           *)

Return(detection, str, config, templated_keys) ==
    [detection |-> detection, str |-> str,
     config |-> config, templated_keys |-> templated_keys]

NoReturn == Return(NoResult, <<>>, EmptyConfig, <<>>)

Init ==
    /\ shared_detector \in Detectors
    /\ call \in Calls
    /\ pc = "start"
    /\ ret = NoReturn

Detect ==
    /\ pc = "start"
    /\ call.op = "detect"
    /\ ret' = Return(detect(shared_detector, call.value, call.key_name), <<>>, EmptyConfig, <<>>)
    /\ pc' = "done"
    /\ UNCHANGED <<shared_detector, call>>

TemplateValue ==
    /\ pc = "start"
    /\ call.op = "template_value"
    /\ ret' = Return(NoResult, template_value(shared_detector, call.key_name), EmptyConfig, <<>>)
    /\ pc' = "done"
    /\ UNCHANGED <<shared_detector, call>>

\* mutant: the replacements are written into the caller's structure
TemplateSecretsInConfig_in_place ==
    /\ pc = "start"
    /\ call.op = "template_secrets_in_config"
    /\ LET used == IF call.pass_detector THEN shared_detector ELSE DefaultDetector
           out == template_secrets_in_config(call.config, used)
       IN  /\ ret' = Return(NoResult, <<>>, out[1], out[2])
           /\ call' = [call EXCEPT !.config = out[1]]
    /\ pc' = "done"
    /\ UNCHANGED shared_detector

TemplateSecretsInConfig ==
    /\ pc = "start"
    /\ call.op = "template_secrets_in_config"
    /\ LET used == IF call.pass_detector THEN shared_detector ELSE DefaultDetector
           out == template_secrets_in_config(call.config, used)
       IN  ret' = Return(NoResult, <<>>, out[1], out[2])
    /\ pc' = "done"
    /\ UNCHANGED <<shared_detector, call>>

\* the caller hands the configuration a call returned to a second call,
\* with the same detector argument
TemplateSecretsInConfigAgain ==
    /\ pc = "done"
    /\ call.op = "template_secrets_in_config"
    /\ LET used == IF call.pass_detector THEN shared_detector ELSE DefaultDetector
           out == template_secrets_in_config(ret.config, used)
       IN  ret' = Return(NoResult, <<>>, out[1], out[2])
    /\ pc' = "again"
    /\ UNCHANGED <<shared_detector, call>>

Next ==
    \/ Detect
    \/ TemplateValue
    \/ TemplateSecretsInConfig
    \/ TemplateSecretsInConfigAgain

Spec == Init /\ [][Next]_vars

----------------------------------------------------------------------------
(* The properties.                                                         *)

\* the call of operation op has returned
Done(op) == pc = "done" /\ call.op = op

\* the detector a template_secrets_in_config call works with
UsedDetector == IF call.pass_detector THEN shared_detector ELSE DefaultDetector

\* the value is empty or consists of whitespace only
Blank(value) == \A i \in 1..Len(value) : value[i] \in WHITESPACE

\* the key, uppercased, contains keyword kw
KeyContains(kw, key_name) == Contains(kw, upper(key_name))

\* the key contains one of the secret keywords, whatever its case
HasSecretKeywordIn(key_name) ==
    \E i \in 1..Len(SECRET_KEYWORDS) : KeyContains(SECRET_KEYWORDS[i], key_name)

\* one of the '_'-separated parts of the uppercased key is a safe keyword
HasSafePart(key_name) ==
    \E i \in 1..Len(SAFE_KEYWORDS) : InList(SAFE_KEYWORDS[i], split(upper(key_name), "_"))

\* the key contains one of the ambiguous keywords
HasAmbiguousKeywordIn(key_name) ==
    \E i \in 1..Len(AMBIGUOUS_KEYWORDS) : KeyContains(AMBIGUOUS_KEYWORDS[i], key_name)

\* the key uppercased with '-' replaced by '_'
UpperSnake(key_name) == replace(upper(key_name), "-", "_")

\* ${KEY_UPPER_SNAKE}
Wrapped_(key_name) == <<"$", "{">> \o UpperSnake(key_name) \o <<"}">>

\* the placeholder of a key: ${KEY_UPPER_SNAKE}, or KEY_UPPER_SNAKE itself
\* when that already starts with '$'
PlaceholderOf(key_name) ==
    IF UpperSnake(key_name) # <<>> /\ UpperSnake(key_name)[1] = "$"
    THEN UpperSnake(key_name)
    ELSE Wrapped_(key_name)

\* C1 (as claimed): after template_secrets_in_config, every str leaf of the
\* input that the detector classifies HIGH or MEDIUM (under the key of the
\* mapping entry that holds it, directly or through lists) is replaced in the
\* output by its placeholder.
RECURSIVE LeavesReplaced(_, _, _, _)
LeavesReplaced(in, out, key, d) ==
    IF in.type = "str"
    THEN detect(d, in.val, key).confidence \in {HIGH, MEDIUM}
            => out = Str(Replacement(d, detect(d, in.val, key), key))
    ELSE IF in.type = "dict"
    THEN /\ out.type = "dict" /\ Len(out.val) = Len(in.val)
         /\ \A i \in 1..Len(in.val) :
               LeavesReplaced(in.val[i].value, out.val[i].value, in.val[i].key, d)
    ELSE IF in.type = "list"
    THEN /\ out.type = "list" /\ Len(out.val) = Len(in.val)
         /\ \A i \in 1..Len(in.val) : LeavesReplaced(in.val[i], out.val[i], key, d)
    ELSE TRUE

C1_EverySecretLeafReplaced ==
    Done("template_secrets_in_config")
        => LeavesReplaced(call.config, ret.config, <<>>, UsedDetector)

\* C2 (as claimed): for every key that contains a secret keyword and for EVERY
\* value, detect returns HIGH with templated_value ${KEY_UPPER_SNAKE}.
C2_SecretKeyAlwaysHigh ==
    Done("detect") /\ HasSecretKeywordIn(call.key_name)
        => /\ ret.detection.confidence = HIGH
           /\ ret.detection.templated_value = Some(Wrapped_(call.key_name))

\* C2 (amended): for every key that contains a secret keyword and every value
\* that is not empty or whitespace-only, detect returns HIGH with a
\* templated_value that is ${KEY_UPPER_SNAKE}, or KEY_UPPER_SNAKE itself when
\* that already starts with '$'.
C2_SecretKeyHighUnlessBlank ==
    Done("detect") /\ HasSecretKeywordIn(call.key_name) /\ ~Blank(call.value)
        => /\ ret.detection.confidence = HIGH
           /\ ret.detection.templated_value = Some(PlaceholderOf(call.key_name))

\* C2 witness: a lower-case key with a secret keyword inside a longer word,
\* a harmless boolean value, and the result is HIGH
C2_Witness ==
    /\ Done("detect")
    /\ call.key_name = <<"K", "e", "y", "s", "_", "i", "d">>
    /\ call.value = <<"t", "r", "u", "e">>
    /\ ret.detection.confidence = HIGH

\* C3: a key with a safe keyword among its parts and no secret keyword
\* anywhere yields SAFE for every value, secret-shaped ones included.
C3_SafeKeyAlwaysSafe ==
    Done("detect") /\ HasSafePart(call.key_name) /\ ~HasSecretKeywordIn(call.key_name)
        => ret.detection.confidence = SAFE

\* C3 witness: an API-key-shaped value under a key with the safe part PORT
C3_Witness ==
    /\ Done("detect")
    /\ call.key_name = <<"M", "Y", "_", "P", "O", "R", "T">>
    /\ call.value = <<"s", "k", "_", "l", "i", "v", "e", "_", "a", "b", "c", "d", "e", "f", "1", "2", "3", "4", "5", "6", "7", "8", "9", "0", "A", "B", "C", "D", "E", "F">>
    /\ ret.detection.confidence = SAFE
    /\ ret.detection.reason = <<"Key contains safe keyword", <<"P", "O", "R", "T">>>>

\* the value's entropy exceeds the detector's threshold
HighEntropy(d, value) == _calculate_entropy(d, value) > d.high_entropy_threshold

\* the rules of detect in the order the specification gives them: whether
\* each applies to (value, key_name)
RuleApplies(d, value, key_name) ==
    << Blank(value),                                                     \* 1
       HasSafePart(key_name) /\ ~HasSecretKeywordIn(key_name),           \* 2a
       HasSecretKeywordIn(key_name),                                     \* 2b
       HasAmbiguousKeywordIn(key_name)
           /\ _contains_credentials_in_url(d, value),                    \* 2c
       HasAmbiguousKeywordIn(key_name) /\ HighEntropy(d, value),         \* 2c
       _is_boolean_value(d, value),                                      \* 3a
       _is_numeric_value(d, value),                                      \* 3b
       _is_version_string(d, value),                                     \* 3c
       Len(value) < d.min_secret_length,                                 \* 3d
       _matches_api_key_pattern(d, value),                               \* 3e
       _matches_jwt_pattern(d, value),                                   \* 3f
       _matches_base64_secret_pattern(d, value) /\ HighEntropy(d, value),\* 3g
       SchemeLen(value) > 0 /\ _contains_credentials_in_url(d, value),   \* 3h
       SchemeLen(value) > 0,                                             \* 3h
       Len(value) >= d.min_secret_length /\ HighEntropy(d, value),       \* 4
       TRUE >>                                                           \* 5

\* what each rule yields: confidence, the fixed text of the reason, and
\* whether the placeholder is given ("key": always, "if_key": when a key name
\* was supplied, "none": never)
RuleYields ==
    << <<SAFE, "Empty or whitespace-only value", "none">>,
       <<SAFE, "Key contains safe keyword", "none">>,
       <<HIGH, "Key contains secret keyword", "key">>,
       <<HIGH, "Key contains with embedded credentials", "key">>,
       <<MEDIUM, "Key contains with high entropy value", "key">>,
       <<SAFE, "Boolean value", "none">>,
       <<SAFE, "Numeric value", "none">>,
       <<SAFE, "Version string", "none">>,
       <<SAFE, "Value too short", "none">>,
       <<HIGH, "Matches API key pattern (20+ alphanumeric characters)", "if_key">>,
       <<HIGH, "Matches JWT token pattern", "if_key">>,
       <<HIGH, "Matches base64 encoded secret pattern with high entropy", "if_key">>,
       <<HIGH, "URL contains embedded credentials", "none">>,
       <<SAFE, "URL without embedded credentials", "none">>,
       <<MEDIUM, "High entropy value (bits/char)", "if_key">>,
       <<SAFE, "No secret indicators detected", "none">> >>

\* the first rule that applies
FirstRule(applies) ==
    CHOOSE i \in 1..Len(applies) : applies[i] /\ \A j \in 1..(i - 1) : ~applies[j]

\* the templated_value a rule gives for a key
PlaceholderGiven(kind, key_name) ==
    IF kind = "key" \/ (kind = "if_key" /\ key_name # <<>>)
    THEN Some(PlaceholderOf(key_name))
    ELSE None

\* C4: detect returns what the first applicable rule of the fixed order
\* yields: its confidence, its reason and its templated_value; no later rule
\* changes any of them.
C4_FirstMatchWins ==
    Done("detect") =>
        LET rule == RuleYields[FirstRule(RuleApplies(shared_detector, call.value, call.key_name))]
        IN  /\ ret.detection.confidence = rule[1]
            /\ ret.detection.reason[1] = rule[2]
            /\ ret.detection.templated_value = PlaceholderGiven(rule[3], call.key_name)

\* C4 witness: a value that is numeric and API-key-shaped at once, under a
\* key with an ambiguous keyword: the numeric rule, the earlier one, decides
C4_Witness ==
    /\ Done("detect")
    /\ call.key_name = <<"S", "E", "S", "S", "I", "O", "N", "_", "I", "D">>
    /\ call.value = <<"1", "2", "3", "4", "5", "6", "7", "8", "9", "0", "1", "2", "3", "4", "5", "6", "7", "8", "9", "0", "1", "2", "3">>
    /\ _matches_api_key_pattern(shared_detector, call.value)
    /\ ret.detection.confidence = SAFE
    /\ ret.detection.reason = <<"Numeric value">>

\* C5: an empty or whitespace-only value yields SAFE with the reason "Empty
\* or whitespace-only value" and no templated_value, whatever the key.
C5_BlankValueIsSafe ==
    Done("detect") /\ Blank(call.value)
        => ret.detection =
               SecretDetectionResult(SAFE, <<"Empty or whitespace-only value">>,
                                     call.value, None)

\* C5 witness: a whitespace-only value under a key with a secret keyword
C5_Witness ==
    /\ Done("detect")
    /\ call.key_name = <<"A", "P", "I", "_", "K", "E", "Y">>
    /\ call.value = <<" ", "\t", "\n">>
    /\ ret.detection.confidence = SAFE

\* one of the '_'-separated parts of the uppercased key contains a secret keyword
HasSecretPart(key_name) ==
    \E p \in 1..Len(split(upper(key_name), "_")) :
        \E i \in 1..Len(SECRET_KEYWORDS) :
            Contains(SECRET_KEYWORDS[i], split(upper(key_name), "_")[p])

\* C6: for a non-blank value, a part of the key that contains a secret
\* keyword makes the result HIGH with the reason citing a secret keyword of
\* the key, also when another part is a safe keyword or the key contains an
\* ambiguous keyword.
C6_SecretKeywordDominates ==
    Done("detect") /\ ~Blank(call.value) /\ HasSecretPart(call.key_name)
        => /\ ret.detection.confidence = HIGH
           /\ ret.detection.reason[1] = "Key contains secret keyword"
           /\ InList(ret.detection.reason[2], SECRET_KEYWORDS)
           /\ KeyContains(ret.detection.reason[2], call.key_name)

\* C6 witness: API_DEBUG_TOKEN has the safe part DEBUG between two secret parts
C6_Witness ==
    /\ Done("detect")
    /\ call.key_name = <<"A", "P", "I", "_", "D", "E", "B", "U", "G", "_", "T", "O", "K", "E", "N">>
    /\ HasSafePart(call.key_name)
    /\ call.value = <<"t", "r", "u", "e">>
    /\ ret.detection.confidence = HIGH

\* the key reaches the ambiguous-keyword rule: it contains an ambiguous
\* keyword and neither the safe short-circuit nor a secret keyword applies
AmbiguousOnly(key_name) ==
    /\ HasAmbiguousKeywordIn(key_name)
    /\ ~HasSecretKeywordIn(key_name)
    /\ ~HasSafePart(key_name)

C8_AmbiguousFallthrough ==
    Done("detect") /\ ~Blank(call.value) /\ AmbiguousOnly(call.key_name)
        /\ ~_contains_credentials_in_url(shared_detector, call.value)
        /\ ~HighEntropy(shared_detector, call.value)
        => /\ ret.detection.confidence = detect(shared_detector, call.value, <<>>).confidence
           /\ ret.detection.reason = detect(shared_detector, call.value, <<>>).reason

\* C8 witness: the short numeric SESSION_ID is SAFE by the numeric rule
C8_Witness ==
    /\ Done("detect")
    /\ call.key_name = <<"S", "E", "S", "S", "I", "O", "N", "_", "I", "D">>
    /\ call.value = <<"8", "0", "8", "0">>
    /\ ret.detection.confidence = SAFE
    /\ ret.detection.reason = <<"Numeric value">>

\* the keyword stage returns no result for (value, key_name)
KeywordStageSilent(d, value, key_name) ==
    /\ ~HasSafePart(key_name)
    /\ ~HasSecretKeywordIn(key_name)
    /\ HasAmbiguousKeywordIn(key_name)
           => ~_contains_credentials_in_url(d, value) /\ ~HighEntropy(d, value)

\* the value gets past the boolean, numeric, version and length rules
PastBenignRules(d, value) ==
    /\ ~_is_boolean_value(d, value)
    /\ ~_is_numeric_value(d, value)
    /\ ~_is_version_string(d, value)
    /\ Len(value) >= d.min_secret_length

\* the value has one of the three secret shapes
SecretShaped(d, value) ==
    \/ _matches_api_key_pattern(d, value)
    \/ _matches_jwt_pattern(d, value)
    \/ _matches_base64_secret_pattern(d, value) /\ HighEntropy(d, value)

\* C9: a value that reaches the pattern stage, gets past the benign rules
\* and has a secret shape is HIGH; its templated_value is the key's
\* placeholder when a key name was supplied and absent otherwise.
C9_SecretShapesAreHigh ==
    Done("detect") /\ ~Blank(call.value)
        /\ KeywordStageSilent(shared_detector, call.value, call.key_name)
        /\ PastBenignRules(shared_detector, call.value)
        /\ SecretShaped(shared_detector, call.value)
        => /\ ret.detection.confidence = HIGH
           /\ ret.detection.templated_value =
                  IF call.key_name # <<>> THEN Some(PlaceholderOf(call.key_name)) ELSE None

\* C9 witness: a JWT with no key name is HIGH and carries no placeholder
C9_Witness ==
    /\ Done("detect")
    /\ call.key_name = <<>>
    /\ call.value = <<"e", "y", "J", "h", "b", "G", "c", "i", "O", "i", "J", "9", ".", "e", "y", "J", "z", "d", "W", "I", "i", "O", "i", "I", "x", "I", "n", "0", ".", "c", "2", "l", "n">>
    /\ ret.detection.confidence = HIGH
    /\ ret.detection.templated_value = None

\* C10: a value beginning with http:// or https:// that reaches the URL rule
\* is HIGH without templated_value when it embeds credentials and SAFE
\* ("URL without embedded credentials") otherwise, whatever its entropy.
C10_UrlRule ==
    Done("detect") /\ ~Blank(call.value)
        /\ KeywordStageSilent(shared_detector, call.value, call.key_name)
        /\ PastBenignRules(shared_detector, call.value)
        /\ ~SecretShaped(shared_detector, call.value)
        /\ (startswith(call.value, <<"h", "t", "t", "p", ":", "/", "/">>) \/ startswith(call.value, <<"h", "t", "t", "p", "s", ":", "/", "/">>))
        => IF _contains_credentials_in_url(shared_detector, call.value)
           THEN /\ ret.detection.confidence = HIGH
                /\ ret.detection.templated_value = None
           ELSE /\ ret.detection.confidence = SAFE
                /\ ret.detection.reason = <<"URL without embedded credentials">>

\* C10 witness: a credential-free URL of high entropy under a key name is SAFE
C10_Witness ==
    /\ Done("detect")
    /\ call.key_name = <<"c", "o", "m", "m", "a", "n", "d">>
    /\ call.value = <<"h", "t", "t", "p", "s", ":", "/", "/", "a", "p", "i", ".", "e", "x", "a", "m", "p", "l", "e", ".", "c", "o", "m", "/", "v", "1", "/", "i", "t", "e", "m", "s", "?", "q", "=", "A", "b", "C", "d", "E", "f", "G", "h", "I", "j", "K", "l", "M", "n", "O", "q", "R", "s", "T", "u", "V", "w", "X", "y", "Z">>
    /\ HighEntropy(shared_detector, call.value)
    /\ ret.detection.confidence = SAFE

\* the keyword stage of detector d returns no result for (value, key_name)
KeywordStageReturnsNothing(d, value, key_name) ==
    ~IsResult(_keyword_match(d, KeyUpper(key_name), value))

\* the value is boolean-looking, parses as a float or has version-string shape
BenignShaped(d, value) ==
    \/ _is_boolean_value(d, value)
    \/ _is_numeric_value(d, value)
    \/ _is_version_string(d, value)

\* C11: when the keyword stage returns nothing, a boolean-looking, numeric
\* or version-shaped value is SAFE, also when it has the API-key shape or an
\* entropy above the threshold.
C11_BenignShapesAreSafe ==
    Done("detect")
        /\ KeywordStageReturnsNothing(shared_detector, call.value, call.key_name)
        /\ BenignShaped(shared_detector, call.value)
        => ret.detection.confidence = SAFE

\* C11 witness: 23 digits, numeric and API-key-shaped at once, with no key
\* name, are SAFE by the numeric rule
C11_Witness ==
    /\ Done("detect")
    /\ call.key_name = <<>>
    /\ call.value = <<"1", "2", "3", "4", "5", "6", "7", "8", "9", "0", "1", "2", "3", "4", "5", "6", "7", "8", "9", "0", "1", "2", "3">>
    /\ Len(call.value) >= shared_detector.min_secret_length
    /\ _matches_api_key_pattern(shared_detector, call.value)
    /\ ret.detection.confidence = SAFE

\* C12: a value shorter than min_secret_length is SAFE, unless the result is
\* the one the keyword stage returned for the key name.
C12_ShortValuesAreSafe ==
    Done("detect") /\ Len(call.value) < shared_detector.min_secret_length
        => \/ ret.detection.confidence = SAFE
           \/ /\ ~Blank(call.value)
              /\ HasSecretKeywordIn(call.key_name) \/ HasAmbiguousKeywordIn(call.key_name)
              /\ ret.detection = _keyword_match(shared_detector, KeyUpper(call.key_name), call.value)

\* C12 witness: 20 characters of API-key shape are too short for a detector
\* with min_secret_length = 24
C12_Witness ==
    /\ Done("detect")
    /\ shared_detector.min_secret_length = 24
    /\ call.key_name = <<"c", "o", "m", "m", "a", "n", "d">>
    /\ call.value = <<"a", "b", "c", "d", "e", "f", "g", "h", "i", "j", "k", "l", "m", "n", "o", "p", "q", "r", "s", "t">>
    /\ _matches_api_key_pattern(shared_detector, call.value)
    /\ ret.detection.confidence = SAFE
    /\ ret.detection.reason = <<"Value too short", 20, 24>>

RECURSIVE Flatten(_)
Flatten(seqs) == IF seqs = <<>> THEN <<>> ELSE Head(seqs) \o Flatten(Tail(seqs))

\* the keys of the mapping entries that get replaced, i.e. whose str value
\* detector d classifies HIGH or MEDIUM under the entry's key, in depth-first
\* order: entries in insertion order, list elements by position
RECURSIVE ReplacedKeys(_, _)
ReplacedKeys(node, d) ==
    IF node.type = "dict"
    THEN Flatten([i \in 1..Len(node.val) |->
             IF node.val[i].value.type = "str"
             THEN IF detect(d, node.val[i].value.val, node.val[i].key).confidence
                         \in {HIGH, MEDIUM}
                  THEN <<node.val[i].key>>
                  ELSE <<>>
             ELSE ReplacedKeys(node.val[i].value, d)])
    ELSE IF node.type = "list"
    THEN Flatten([i \in 1..Len(node.val) |-> ReplacedKeys(node.val[i], d)])
    ELSE <<>>

\* C14: the templated-key list holds one entry per replaced mapping entry,
\* the entry's bare key, in depth-first visit order.
C14_TemplatedKeysInVisitOrder ==
    Done("template_secrets_in_config")
        => ret.templated_keys = ReplacedKeys(call.config, UsedDetector)

\* C14 witness: the entry nested under the first key is reported before the
\* second top-level entry, each by its bare name
C14_Witness ==
    /\ Done("template_secrets_in_config")
    /\ call.config =
           Dict(<<Entry(<<"n", "a", "m", "e">>, Dict(<<Entry(<<"a", "r", "g", "s">>, Str(<<"s", "k", "_", "l", "i", "v", "e", "_", "a", "b", "c", "d", "e", "f", "1", "2", "3", "4", "5", "6", "7", "8", "9", "0", "A", "B", "C", "D", "E", "F">>))>>)),
                  Entry(<<"a", "p", "i", "_", "k", "e", "y">>, Str(<<"s", "k", "_", "l", "i", "v", "e", "_", "a", "b", "c", "d", "e", "f", "1", "2", "3", "4", "5", "6", "7", "8", "9", "0", "A", "B", "C", "D", "E", "F">>))>>)
    /\ ret.templated_keys = <<<<"a", "r", "g", "s">>, <<"a", "p", "i", "_", "k", "e", "y">>>>

\* out has the structure of in: the same keys in the same order, the same
\* list lengths; a str value of a mapping entry is a str, the same one when
\* the detector classifies it SAFE; every other leaf is the same
RECURSIVE SameStructure(_, _, _)
SameStructure(in, out, d) ==
    IF in.type = "dict"
    THEN /\ out.type = "dict"
         /\ Len(out.val) = Len(in.val)
         /\ \A i \in 1..Len(in.val) :
               /\ out.val[i].key = in.val[i].key
               /\ IF in.val[i].value.type = "str"
                  THEN /\ out.val[i].value.type = "str"
                       /\ detect(d, in.val[i].value.val, in.val[i].key).confidence = SAFE
                              => out.val[i].value = in.val[i].value
                  ELSE SameStructure(in.val[i].value, out.val[i].value, d)
    ELSE IF in.type = "list"
    THEN /\ out.type = "list"
         /\ Len(out.val) = Len(in.val)
         /\ \A i \in 1..Len(in.val) : SameStructure(in.val[i], out.val[i], d)
    ELSE out = in

\* C15: the configuration returned has the structure of the input, and every
\* leaf that is not a replaced string is passed through unchanged.
C15_StructurePreserved ==
    Done("template_secrets_in_config")
        => SameStructure(call.config, ret.config, UsedDetector)

\* C15 witness: a list with an int and a SAFE str, beside a replaced entry
C15_Witness ==
    /\ Done("template_secrets_in_config")
    /\ call.config =
           Dict(<<Entry(<<"a", "r", "g", "s">>, List(<<Scalar("int", <<"3", "0">>), Str(<<"l", "o", "c", "a", "l", "h", "o", "s", "t", ":", "8", "0", "8", "0">>)>>)),
                  Entry(<<"a", "p", "i", "_", "k", "e", "y">>, Str(<<"s", "k", "_", "l", "i", "v", "e", "_", "a", "b", "c", "d", "e", "f", "1", "2", "3", "4", "5", "6", "7", "8", "9", "0", "A", "B", "C", "D", "E", "F">>))>>)
    /\ ret.config =
           Dict(<<Entry(<<"a", "r", "g", "s">>, List(<<Scalar("int", <<"3", "0">>), Str(<<"l", "o", "c", "a", "l", "h", "o", "s", "t", ":", "8", "0", "8", "0">>)>>)),
                  Entry(<<"a", "p", "i", "_", "k", "e", "y">>, Str(<<"$", "{", "A", "P", "I", "_", "K", "E", "Y", "}">>))>>)

\* C16: no step of template_secrets_in_config changes the structure the
\* caller passed in.
C16_InputNeverMutated ==
    [][call.op = "template_secrets_in_config" => call'.config = call.config]_vars

\* C16 witness: a secret was replaced in the returned copy and the input
\* still holds it
C16_Witness ==
    /\ Done("template_secrets_in_config")
    /\ call.config = Dict(<<Entry(<<"a", "p", "i", "_", "k", "e", "y">>, Str(<<"s", "k", "_", "l", "i", "v", "e", "_", "a", "b", "c", "d", "e", "f", "1", "2", "3", "4", "5", "6", "7", "8", "9", "0", "A", "B", "C", "D", "E", "F">>))>>)
    /\ ret.config = Dict(<<Entry(<<"a", "p", "i", "_", "k", "e", "y">>, Str(<<"$", "{", "A", "P", "I", "_", "K", "E", "Y", "}">>))>>)
    /\ ret.templated_keys = <<<<"a", "p", "i", "_", "k", "e", "y">>>>

\* the second call, on the configuration the first call returned, has returned
DoneAgain == pc = "again" /\ call.op = "template_secrets_in_config"

\* C17 (as claimed): the second pass, run on the output of the first,
\* returns an empty templated-key list.
C17_SecondPassReportsNothing ==
    DoneAgain => ret.templated_keys = <<>>

\* C18: the second pass returns the configuration it was given: the step
\* from the first return to the second leaves the returned configuration as
\* it is, also when the second pass reports keys again.
C18_SecondPassKeepsConfig ==
    [][pc = "done" /\ call.op = "template_secrets_in_config"
          => ret'.config = ret.config]_vars

\* C18 witness: the second pass classified the placeholder of api_key HIGH
\* again and wrote the same placeholder
C18_Witness ==
    /\ DoneAgain
    /\ call.config = Dict(<<Entry(<<"a", "p", "i", "_", "k", "e", "y">>, Str(<<"s", "k", "_", "l", "i", "v", "e", "_", "a", "b", "c", "d", "e", "f", "1", "2", "3", "4", "5", "6", "7", "8", "9", "0", "A", "B", "C", "D", "E", "F">>))>>)
    /\ ret.config = Dict(<<Entry(<<"a", "p", "i", "_", "k", "e", "y">>, Str(<<"$", "{", "A", "P", "I", "_", "K", "E", "Y", "}">>))>>)
    /\ ret.templated_keys = <<<<"a", "p", "i", "_", "k", "e", "y">>>>

\* C19: template_value returns the key uppercased with every '-' replaced by
\* '_', wrapped in ${...} unless that name already starts with '$', in which
\* case the name is returned as it is.
C19_TemplateValueNormalizesAndWraps ==
    Done("template_value")
        => LET normalized ==
                   [i \in 1..Len(call.key_name) |->
                       IF call.key_name[i] = "-" THEN "_"
                       ELSE IF call.key_name[i] \in LowerSet
                       THEN UPPER[CHOOSE j \in 1..Len(LOWER) : LOWER[j] = call.key_name[i]]
                       ELSE call.key_name[i]]
           IN  IF normalized # <<>> /\ normalized[1] = "$"
               THEN ret.str = normalized
               ELSE ret.str = <<"$", "{">> \o normalized \o <<"}">>

\* C19 witness: a lower-case key with a hyphen
C19_Witness ==
    /\ Done("template_value")
    /\ call.key_name = <<"a", "p", "i", "-", "k", "e", "y">>
    /\ ret.str = <<"$", "{", "A", "P", "I", "_", "K", "E", "Y", "}">>

\* s.strip("${}"): s without its leading and trailing '$', '{' and '}'
RECURSIVE StripPlaceholderChars(_)
StripPlaceholderChars(s) ==
    IF s = <<>> THEN s
    ELSE IF Head(s) \in {"$", "{", "}"} THEN StripPlaceholderChars(Tail(s))
    ELSE IF s[Len(s)] \in {"$", "{", "}"} THEN StripPlaceholderChars(SubSeq(s, 1, Len(s) - 1))
    ELSE s

\* C20 (as claimed): for every key, template_value of the stripped
\* placeholder is the placeholder again, and template_value returns a key
\* that starts with '$' as it is.
C20_TemplateValueRoundTrips ==
    Done("template_value")
        => /\ template_value(shared_detector, StripPlaceholderChars(ret.str)) = ret.str
           /\ call.key_name # <<>> /\ call.key_name[1] = "$" => ret.str = call.key_name
           /\ template_value(shared_detector, ret.str) = ret.str

\* C20 (amended): template_value applied to its own result returns that
\* result; the round trip through strip("${}") returns it when the normalized
\* key neither begins nor ends with '$', '{' or '}'; and a key that starts
\* with '$' comes back normalized (uppercased, '-' replaced by '_'), hence
\* as it is only when it was normalized already.
C20_TemplateValueIdempotent ==
    Done("template_value")
        => /\ template_value(shared_detector, ret.str) = ret.str
           /\ StripPlaceholderChars(UpperSnake(call.key_name)) = UpperSnake(call.key_name)
                  => template_value(shared_detector, StripPlaceholderChars(ret.str)) = ret.str
           /\ call.key_name # <<>> /\ call.key_name[1] = "$"
                  => ret.str = UpperSnake(call.key_name)

\* C20 witness: the lower-case key $url comes back as $URL, which
\* template_value returns unchanged
C20_Witness ==
    /\ Done("template_value")
    /\ call.key_name = <<"$", "u", "r", "l">>
    /\ ret.str = <<"$", "U", "R", "L">>
    /\ template_value(shared_detector, ret.str) = ret.str

\* C21: detect returns, for every value and key name, a result whose
\* confidence is SAFE, MEDIUM or HIGH, whose reason is not empty and whose
\* original_value is the value it was given.
C21_ResultWellFormed ==
    Done("detect")
        => /\ ret.detection.confidence \in {SAFE, MEDIUM, HIGH}
           /\ ret.detection.reason # <<>>
           /\ ret.detection.reason[1] # ""
           /\ ret.detection.original_value = call.value

\* C21 witness: a number between blanks is recognised as numeric and comes
\* back with its blanks
C21_Witness ==
    /\ Done("detect")
    /\ call.value = <<" ", "1", "2", " ">>
    /\ ret.detection.reason = <<"Numeric value">>
    /\ ret.detection.original_value = <<" ", "1", "2", " ">>

\* C22: a templated_value is present only in a HIGH or MEDIUM result for a
\* non-empty key name, and then it is template_value of the uppercased key.
C22_TemplatedValueOnlyWithKey ==
    Done("detect")
        => /\ ret.detection.templated_value.some
                  => /\ ret.detection.confidence \in {HIGH, MEDIUM}
                     /\ call.key_name # <<>>
                     /\ ret.detection.templated_value.str =
                            template_value(shared_detector, upper(call.key_name))
                     /\ ret.detection.templated_value.str = PlaceholderOf(call.key_name)
           /\ ret.detection.confidence = SAFE => ret.detection.templated_value = None
           /\ call.key_name = <<>> => ret.detection.templated_value = None

\* C22 witness: the entropy rule fires without a key name and gives no
\* templated_value
C22_Witness ==
    /\ Done("detect")
    /\ call.key_name = <<>>
    /\ call.value = <<"X", "k", "9", "#", "m", "P", "2", "$", "v", "L", "7", "@", "n", "Q", "4", "!", "w", "R", "8", "%", "t", "Y", "6", "^", "z", "B", "3", "&">>
    /\ ret.detection.confidence = MEDIUM
    /\ ret.detection.templated_value = None

----------------------------------------------------------------------------
(* Several threads that share one detector instance.  In this              *)
(* specification call, pc and ret hold one component per thread: the call  *)
(* the thread is making, where it stands in it, and the locals of the call *)
(* (the result dict and the templated_keys list built so far, or the       *)
(* result once returned).  detect advances stage by stage and the          *)
(* templater entry by entry, so the calls of different threads interleave. *)

\* the most threads that run at once
MaxThreads == 2

Threads == 1..MaxThreads

\* the shared instance: the default detector or one with a lower threshold
ThreadDetectors ==
    {DefaultDetector, [DefaultDetector EXCEPT !.high_entropy_threshold = 3000000]}

ThreadValues ==
    Range(<< <<" ">>, <<"s", "k", "_", "l", "i", "v", "e", "_", "a", "b", "c", "d", "e", "f", "1", "2", "3", "4", "5", "6", "7", "8", "9", "0", "A", "B", "C", "D", "E", "F">>, <<"X", "k", "9", "#", "m", "P", "2", "$", "v", "L", "7", "@", "n", "Q", "4", "!", "w", "R", "8", "%", "t", "Y", "6", "^", "z", "B", "3", "&">> >>)

ThreadKeys == Range(<< <<>>, <<"A", "P", "I", "_", "K", "E", "Y">> >>)

ThreadConfigs ==
    {Dict(<<Entry(<<"a", "p", "i", "_", "k", "e", "y">>, Str(<<"s", "k", "_", "l", "i", "v", "e", "_", "a", "b", "c", "d", "e", "f", "1", "2", "3", "4", "5", "6", "7", "8", "9", "0", "A", "B", "C", "D", "E", "F">>)),
            Entry(<<"a", "r", "g", "s">>, Str(<<"s", "k", "_", "l", "i", "v", "e", "_", "a", "b", "c", "d", "e", "f", "1", "2", "3", "4", "5", "6", "7", "8", "9", "0", "A", "B", "C", "D", "E", "F">>))>>),
     Dict(<<Entry(<<"n", "a", "m", "e">>, Dict(<<Entry(<<"a", "p", "i", "_", "k", "e", "y">>, Str(<<"s", "k", "_", "l", "i", "v", "e", "_", "a", "b", "c", "d", "e", "f", "1", "2", "3", "4", "5", "6", "7", "8", "9", "0", "A", "B", "C", "D", "E", "F">>))>>))>>)}

\* every templater call is handed the shared instance
ThreadCalls ==
    {Call("detect", v, k, EmptyConfig, TRUE) : v \in ThreadValues, k \in ThreadKeys}
        \cup {Call("template_secrets_in_config", <<>>, <<>>, c, TRUE) : c \in ThreadConfigs}

\* thread t is at position at of a call of op
At(t, op, at) == call[t].op = op /\ pc[t] = at

\* thread t moves to position at with the locals frame
Goto(t, at, frame) ==
    /\ pc' = [pc EXCEPT ![t] = at]
    /\ ret' = [ret EXCEPT ![t] = frame]
    /\ UNCHANGED <<shared_detector, call>>

\* a stage of detect returned result: return it, or go on to the next stage
ReturnOrGoOn(t, result, next_stage) ==
    IF IsResult(result)
    THEN Goto(t, "done", Return(result, <<>>, EmptyConfig, <<>>))
    ELSE Goto(t, next_stage, NoReturn)

InitThreads ==
    /\ shared_detector \in ThreadDetectors
    /\ call \in [Threads -> ThreadCalls]
    /\ pc = [t \in Threads |-> "start"]
    /\ ret = [t \in Threads |-> NoReturn]

\* if not value or not value.strip(): return SAFE
DetectEmptyCheck(t) ==
    /\ At(t, "detect", "start")
    /\ ReturnOrGoOn(t,
           IF IsBlank(call[t].value)
           THEN SecretDetectionResult(SAFE, <<"Empty or whitespace-only value">>,
                                      call[t].value, None)
           ELSE NoResult,
           "keyword")

\* mutant: the keyword stage lowers the instance's threshold as it goes
DetectKeywordMatch_lowers_threshold(t) ==
    /\ At(t, "detect", "keyword")
    /\ IF IsResult(_keyword_match(shared_detector, KeyUpper(call[t].key_name), call[t].value))
       THEN /\ pc' = [pc EXCEPT ![t] = "done"]
            /\ ret' = [ret EXCEPT ![t] =
                          Return(_keyword_match(shared_detector, KeyUpper(call[t].key_name),
                                                call[t].value),
                                 <<>>, EmptyConfig, <<>>)]
       ELSE /\ pc' = [pc EXCEPT ![t] = "pattern"]
            /\ ret' = [ret EXCEPT ![t] = NoReturn]
    /\ shared_detector' = [shared_detector EXCEPT !.high_entropy_threshold = 3000000]
    /\ UNCHANGED call

\* keyword_result = self._keyword_match(key_upper, value)
DetectKeywordMatch(t) ==
    /\ At(t, "detect", "keyword")
    /\ ReturnOrGoOn(t,
           _keyword_match(shared_detector, KeyUpper(call[t].key_name), call[t].value),
           "pattern")

\* pattern_result = self._pattern_match(value, key_upper)
DetectPatternMatch(t) ==
    /\ At(t, "detect", "pattern")
    /\ ReturnOrGoOn(t,
           _pattern_match(shared_detector, call[t].value, KeyUpper(call[t].key_name)),
           "entropy")

\* entropy_result = self._entropy_analysis(value, key_upper), then the default
DetectEntropyAnalysis(t) ==
    /\ At(t, "detect", "entropy")
    /\ Goto(t, "done",
            Return(OrElse(_entropy_analysis(shared_detector, call[t].value,
                                            KeyUpper(call[t].key_name)),
                          SecretDetectionResult(SAFE, <<"No secret indicators detected">>,
                                                call[t].value, None)),
                   <<>>, EmptyConfig, <<>>))

\* templated_keys: list[str] = [] and result: dict[str, Any] = {}
TemplateStart(t) ==
    /\ At(t, "template_secrets_in_config", "start")
    /\ Goto(t, "loop", Return(NoResult, <<>>, Dict(<<>>), <<>>))

\* the locals of thread t's call after one more pass of the loop
LocalsAfter(written) == Return(NoResult, <<>>, Dict(written.obj), written.templated_keys)

\* mutant: the calls in progress append to one templated_keys list
StoreLocals_shared_keys(frames, t, written) ==
    [u \in DOMAIN frames |->
        IF u = t THEN LocalsAfter(written)
        ELSE IF At(u, "template_secrets_in_config", "loop")
        THEN [frames[u] EXCEPT !.templated_keys = written.templated_keys]
        ELSE frames[u]]

\* result and templated_keys are locals of the call of thread t
StoreLocals(frames, t, written) == [frames EXCEPT ![t] = LocalsAfter(written)]

\* the entry the loop of thread t handles next
NextEntry(t) == call[t].config.val[Len(ret[t].config.val) + 1]

\* one pass of "for key, value in obj.items()" over the top-level mapping
TemplateEntry(t) ==
    /\ At(t, "template_secrets_in_config", "loop")
    /\ Len(ret[t].config.val) < Len(call[t].config.val)
    /\ ret' = StoreLocals(ret, t,
                  Assigned(ret[t].config.val, NextEntry(t).key,
                           EntryStep(NextEntry(t).key, NextEntry(t).value, shared_detector,
                                     ret[t].templated_keys, NextEntry(t).key)))
    /\ UNCHANGED <<shared_detector, call, pc>>

\* return result, templated_keys
TemplateReturn(t) ==
    /\ At(t, "template_secrets_in_config", "loop")
    /\ Len(ret[t].config.val) = Len(call[t].config.val)
    /\ Goto(t, "done", ret[t])

\* the thread makes its next call
NextCall(t) ==
    /\ pc[t] = "done"
    /\ \E c \in ThreadCalls : call' = [call EXCEPT ![t] = c]
    /\ pc' = [pc EXCEPT ![t] = "start"]
    /\ ret' = [ret EXCEPT ![t] = NoReturn]
    /\ UNCHANGED shared_detector

NextThreads ==
    \E t \in Threads :
        \/ DetectEmptyCheck(t)
        \/ DetectKeywordMatch(t)
        \/ DetectPatternMatch(t)
        \/ DetectEntropyAnalysis(t)
        \/ TemplateStart(t)
        \/ TemplateEntry(t)
        \/ TemplateReturn(t)
        \/ NextCall(t)

SpecThreads == InitThreads /\ [][NextThreads]_vars

\* thread t has returned from a call of op
Returned_(t, op) == At(t, op, "done")

\* C23: two detect calls with equal value and key name return equal
\* results, whatever calls were made before and whatever runs beside them,
\* and no step changes the detector's thresholds or keyword lists.
C23_DetectIsPure ==
    /\ [](\A t \in Threads, u \in Threads :
              /\ Returned_(t, "detect") /\ Returned_(u, "detect")
              /\ call[t].value = call[u].value
              /\ call[t].key_name = call[u].key_name
              => ret[t].detection = ret[u].detection)
    /\ [][shared_detector' = shared_detector]_vars

\* C23 witness: both threads made the same call, which went through every
\* stage of detect, and hold the same MEDIUM result
C23_Witness ==
    /\ \A t \in Threads :
          /\ Returned_(t, "detect")
          /\ call[t].value = <<"X", "k", "9", "#", "m", "P", "2", "$", "v", "L", "7", "@", "n", "Q", "4", "!", "w", "R", "8", "%", "t", "Y", "6", "^", "z", "B", "3", "&">>
          /\ call[t].key_name = <<>>
          /\ ret[t].detection.confidence = MEDIUM
    /\ ret[1].detection = ret[2].detection

\* what the call of thread t returns when it runs alone
AloneResult(t) ==
    IF call[t].op = "detect"
    THEN Return(detect(shared_detector, call[t].value, call[t].key_name),
                <<>>, EmptyConfig, <<>>)
    ELSE Return(NoResult, <<>>,
                template_secrets_in_config(call[t].config, shared_detector)[1],
                template_secrets_in_config(call[t].config, shared_detector)[2])

\* C24: however the calls of the threads interleave, each call returns what
\* it returns alone, a templater call's list holds the keys that call
\* replaced and no others, and the shared instance stays as it is.
C24_CallsDoNotInterfere ==
    /\ [](\A t \in Threads :
              pc[t] = "done"
                  => /\ ret[t] = AloneResult(t)
                     /\ ret[t].templated_keys = ReplacedKeys(call[t].config, shared_detector))
    /\ [][shared_detector' = shared_detector]_vars

\* C24 witness: thread 1 has replaced one of its two entries while thread 2
\* has returned from a templater call with a list of its own
C24_Witness ==
    /\ At(1, "template_secrets_in_config", "loop")
    /\ ret[1].templated_keys = <<<<"a", "p", "i", "_", "k", "e", "y">>>>
    /\ Len(call[1].config.val) = 2
    /\ Returned_(2, "template_secrets_in_config")
    /\ call[2].config # call[1].config
    /\ ret[2].templated_keys = <<<<"a", "p", "i", "_", "k", "e", "y">>>>

----------------------------------------------------------------------------
(* _calculate_entropy on its own.  In this specification call holds the    *)
(* value the function is given and ret the float it returns, in micro-bits *)
(* per character.                                                          *)

\* the longest string generated over the three-letter alphabet
MaxEntropyLen == 4

ENTROPY_ALPHABET == {"a", "b", "c"}

\* 64 pairwise distinct characters
DISTINCT_CHARS == LOWER \o UPPER \o <<"0", "1", "2", "3", "4", "5", "6", "7", "8", "9", "+", "/">>

RECURSIVE StringsOver(_, _)
StringsOver(alphabet, n) ==
    IF n = 0 THEN {<<>>}
    ELSE StringsOver(alphabet, n - 1)
             \cup {Append(s, c) : s \in {x \in StringsOver(alphabet, n - 1) : Len(x) = n - 1},
                                  c \in alphabet}

\* every string of up to MaxEntropyLen letters, every run of one character
\* and every string of distinct characters up to 64 characters
EntropyValues ==
    StringsOver(ENTROPY_ALPHABET, MaxEntropyLen)
        \cup {[i \in 1..n |-> "a"] : n \in 1..Len(DISTINCT_CHARS)}
        \cup {SubSeq(DISTINCT_CHARS, 1, n) : n \in 1..Len(DISTINCT_CHARS)}

InitEntropy ==
    /\ shared_detector = DefaultDetector
    /\ call \in {Call("_calculate_entropy", v, <<>>, EmptyConfig, TRUE) : v \in EntropyValues}
    /\ pc = "start"
    /\ ret = 0

CalculateEntropy ==
    /\ pc = "start"
    /\ call.op = "_calculate_entropy"
    /\ ret' = _calculate_entropy(shared_detector, call.value)
    /\ pc' = "done"
    /\ UNCHANGED <<shared_detector, call>>

NextEntropy == CalculateEntropy

SpecEntropy == InitEntropy /\ [][NextEntropy]_vars

\* the characters that occur in value
CharsOf(value) == {value[i] : i \in 1..Len(value)}

\* C25: the entropy of the empty string is 0, that of a run of one character
\* is 0, and that of n pairwise distinct characters is log2(n); in general
\* it lies between 0 and log2 of the number of distinct characters.  The
\* table is one of base-2 logarithms: log2(1) = 0, log2(2n) = log2(n) + 1,
\* and it increases.
C25_EntropyOfSpecialStrings ==
    Done("_calculate_entropy")
        => /\ call.value = <<>> => ret = 0
           /\ Cardinality(CharsOf(call.value)) = 1 => ret = 0
           /\ call.value # <<>> /\ Cardinality(CharsOf(call.value)) = Len(call.value)
                  => ret = LOG2_MICRO[Len(call.value)]
           /\ call.value # <<>>
                  => ret >= 0 /\ ret <= LOG2_MICRO[Cardinality(CharsOf(call.value))]
           /\ LOG2_MICRO[1] = 0
           /\ \A n \in 1..(Len(LOG2_MICRO) \div 2) : LOG2_MICRO[2 * n] = LOG2_MICRO[n] + 1000000
           /\ \A n \in 1..(Len(LOG2_MICRO) - 1) : LOG2_MICRO[n] < LOG2_MICRO[n + 1]

\* C25 witness: three distinct characters have entropy log2(3)
C25_Witness ==
    /\ Done("_calculate_entropy")
    /\ call.value = <<"a", "b", "c">>
    /\ ret = 1584963

----------------------------------------------------------------------------
(* Pip dependencies of MCP servers: devsync/core/pip_utils.py and          *)
(* _install_pip_dependencies of devsync/cli/install_v2.py.  In this        *)
(* specification call holds the arguments of install_pip_package or of     *)
(* _install_pip_dependencies, pc the statement the call has reached, and   *)
(* ret the locals of the call together with the list of the calls made to  *)
(* the outside (validation, metadata lookup, prompt, subprocesses), in the *)
(* order they were made.                                                   *)

\* the most servers a manifest declares
MaxServers == 2

\* the grave accent U+0060, which a string literal of the module cannot hold
GRAVE == "U+0060"

_DANGEROUS_CHARS == {";", "|", "&", "$", GRAVE, "{", "}", "(", ")", "\n", "\r"}

ALNUM == DIGITS \cup LowerSet \cup UpperSet

\* [A-Za-z0-9._-]
NAME_CHARS == ALNUM \cup {".", "_", "-"}

\* [A-Za-z0-9,._-]
EXTRAS_CHARS == ALNUM \cup {",", ".", "_", "-"}

\* [<>=!~]
OPERATOR_CHARS == {"<", ">", "=", "!", "~"}

\* [A-Za-z0-9.*]
VERSION_CHARS == ALNUM \cup {".", "*"}

EachIn(s, chars) == \A i \in 1..Len(s) : s[i] \in chars

\* [A-Za-z0-9]([A-Za-z0-9._-]*[A-Za-z0-9])?
IsPackageName(s) ==
    /\ s # <<>>
    /\ s[1] \in ALNUM
    /\ s[Len(s)] \in ALNUM
    /\ EachIn(s, NAME_CHARS)

\* (\[[A-Za-z0-9,._-]+\])?
IsExtras(s) ==
    \/ s = <<>>
    \/ /\ Len(s) >= 3
       /\ s[1] = "["
       /\ s[Len(s)] = "]"
       /\ EachIn(SubSeq(s, 2, Len(s) - 1), EXTRAS_CHARS)

\* ([<>=!~]+[A-Za-z0-9.*]+)?
IsVersionConstraint(s) ==
    \/ s = <<>>
    \/ \E k \in 1..(Len(s) - 1) :
           /\ EachIn(SubSeq(s, 1, k), OPERATOR_CHARS)
           /\ EachIn(SubSeq(s, k + 1, Len(s)), VERSION_CHARS)

\* _PIP_SPEC_PATTERN.match(s): s is a name, then extras, then a constraint
_PIP_SPEC_PATTERN(s) ==
    \E i \in 1..Len(s) : \E j \in i..Len(s) :
        /\ IsPackageName(SubSeq(s, 1, i))
        /\ IsExtras(SubSeq(s, i + 1, j))
        /\ IsVersionConstraint(SubSeq(s, j + 1, Len(s)))

\* spec.startswith(("git+", "file:", "/", "\\", "."))
PATH_PREFIXES == { <<"g", "i", "t", "+">>, <<"f", "i", "l", "e", ":">>, <<"/">>, <<"\\">>, <<".">> }

\* the checks of validate_pip_spec on the stripped spec
ValidStripped(s) ==
    IF \E i \in 1..Len(s) : s[i] \in _DANGEROUS_CHARS THEN FALSE
    ELSE IF Contains(<<":", "/", "/">>, s) \/ \E p \in PATH_PREFIXES : startswith(s, p) THEN FALSE
    ELSE _PIP_SPEC_PATTERN(s)

validate_pip_spec(spec) ==
    IF spec = <<>> \/ strip(spec) = <<>> THEN FALSE ELSE ValidStripped(strip(spec))

\* re.search(r"([<>=!~]+.+)$", s): an operator character with text after it
HasConstraint(s) ==
    \E i \in 1..(Len(s) - 1) :
        /\ s[i] \in OPERATOR_CHARS
        /\ \A k \in (i + 1)..Len(s) : s[k] # "\n"

\* installed_version_satisfies: installed says whether importlib.metadata
\* knows the base name, in_specifier what the SpecifierSet test gives (True
\* also when packaging is missing or the version cannot be parsed)
installed_version_satisfies(spec, installed, in_specifier) ==
    IF ~installed THEN FALSE
    ELSE IF ~HasConstraint(strip(spec)) THEN TRUE
    ELSE in_specifier

\* a tuple[bool, str]
PipResult(success, message) == [success |-> success, message |-> message]

NoPipResult == PipResult(FALSE, <<>>)

\* what subprocess.run did: returned a CompletedProcess or raised
Completed(returncode, stderr) ==
    [kind |-> "CompletedProcess", returncode |-> returncode, stderr |-> stderr]

Raised(exception) == [kind |-> exception, returncode |-> 0, stderr |-> <<>>]

\* the runs of "pip --version"
ProbeRuns ==
    {Completed(0, <<>>), Completed(1, <<"N", "o", " ", "m", "o", "d", "u", "l", "e", " ", "n", "a", "m", "e", "d", " ", "p", "i", "p">>),
     Raised("OSError"), Raised("TimeoutExpired")}

\* the runs of "pip install spec"
InstallRuns ==
    {Completed(0, <<>>),
     Completed(1, <<"E", "R", "R", "O", "R", ":", " ", "N", "o", " ", "m", "a", "t", "c", "h", "i", "n", "g", " ", "d", "i", "s", "t", "r", "i", "b", "u", "t", "i", "o", "n", " ", "f", "o", "u", "n", "d", " ", "f", "o", "r", " ", "p", "k", "g">>),
     Completed(1, <<"E", "R", "R", "O", "R", ":", " ", "C", "o", "u", "l", "d", " ", "n", "o", "t", " ", "f", "i", "n", "d", " ", "a", " ", "v", "e", "r", "s", "i", "o", "n", " ", "t", "h", "a", "t", " ", "s", "a", "t", "i", "s", "f", "i", "e", "s">>),
     Completed(1, <<"E", "R", "R", "O", "R", ":", " ", "[", "E", "r", "r", "n", "o", " ", "1", "3", "]", " ", "P", "e", "r", "m", "i", "s", "s", "i", "o", "n", " ", "d", "e", "n", "i", "e", "d", ":", " ", "s", "i", "t", "e", "-", "p", "a", "c", "k", "a", "g", "e", "s">>),
     Completed(1, <<"P", "e", "r", "m", "i", "s", "s", "i", "o", "n", "E", "r", "r", "o", "r", ":", " ", "a", "c", "c", "e", "s", "s">>),
     Completed(2, <<"b", "o", "o", "m">>),
     Raised("OSError"), Raised("TimeoutExpired")}

\* the tuple install_pip_package returns after a run that completed
CompletedResult(spec, run) ==
    IF run.returncode = 0 THEN PipResult(TRUE, <<"Successfully installed ", spec>>)
    ELSE IF Contains(<<"n", "o", " ", "m", "a", "t", "c", "h", "i", "n", "g", " ", "d", "i", "s", "t", "r", "i", "b", "u", "t", "i", "o", "n">>, lower(run.stderr))
    THEN PipResult(FALSE, <<"Package not found: ", spec>>)
    ELSE IF Contains(<<"c", "o", "u", "l", "d", " ", "n", "o", "t", " ", "f", "i", "n", "d", " ", "a", " ", "v", "e", "r", "s", "i", "o", "n">>, lower(run.stderr))
    THEN PipResult(FALSE, <<"No compatible version found for ", spec>>)
    ELSE IF \/ Contains(<<"p", "e", "r", "m", "i", "s", "s", "i", "o", "n", " ", "d", "e", "n", "i", "e", "d">>, lower(run.stderr))
            \/ Contains(<<"p", "e", "r", "m", "i", "s", "s", "i", "o", "n", "e", "r", "r", "o", "r">>, lower(run.stderr))
    THEN PipResult(FALSE, <<"Permission denied installing ", spec,
                            ". Try using a virtual environment.">>)
    ELSE PipResult(FALSE, <<"pip install failed for ", spec, " (exit code ",
                            run.returncode, ")">>)

\* the default timeout of install_pip_package, in seconds
INSTALL_TIMEOUT == 120

\* the tuple install_pip_package returns after the run, with both handlers
RunResult(spec, run) ==
    IF run.kind = "CompletedProcess" THEN CompletedResult(spec, run)
    ELSE IF run.kind = "TimeoutExpired"
    THEN PipResult(FALSE, <<"pip install timed out after ", INSTALL_TIMEOUT, "s for ", spec>>)
    ELSE PipResult(FALSE, <<"Failed to run pip: ", run.kind>>)

\* specs that validate, with and without a constraint, and specs that do
\* not: empty, blank, URL, VCS, file, paths, shell metacharacters, a space
\* inside, a leading dash, a constraint without a version
ValidSpecs ==
    { <<"r", "e", "q", "u", "e", "s", "t", "s">>, <<"m", "c", "p", "-", "s", "e", "r", "v", "e", "r", ">", "=", "1", ".", "0">>, <<"p", "k", "g", "[", "e", "x", "t", "r", "a", "]", "=", "=", "2", ".", "*">>, <<" ", "r", "e", "q", "u", "e", "s", "t", "s", " ">> }

InvalidSpecs ==
    { <<>>, <<" ">>, <<"h", "t", "t", "p", "s", ":", "/", "/", "x", ".", "i", "o", "/", "p">>, <<"g", "i", "t", "+", "x">>, <<"f", "i", "l", "e", ":", "p">>, <<"/", "t", "m", "p", "/", "p">>, <<".", "/", "p">>,
      <<"\\", "p">>, <<"a", ";", "b">>, <<"$", "(", "p", ")">>, <<GRAVE, "p", GRAVE>>, <<"a", " ", "b">>, <<"-", "p">>, <<"p", ">", "=">> }

PipSpecs == ValidSpecs \cup InvalidSpecs

\* an MCPDeclaration, as far as _install_pip_dependencies reads it
Server(name, pip_package) == [name |-> name, pip_package |-> pip_package]

\* declarations with no pip_package, an empty one, one that validates with
\* and without a constraint, and one that does not validate (pip_package is
\* a plain attribute and may be assigned after construction); two of them
\* carry the same name
ServerPool ==
    {Server(<<"d", "o", "c", "s">>, None), Server(<<"d", "o", "c", "s">>, Some(<<>>)),
     Server(<<"g", "i", "t", "h", "u", "b">>, Some(<<"m", "c", "p", "-", "s", "e", "r", "v", "e", "r", ">", "=", "1", ".", "0">>)),
     Server(<<"s", "e", "a", "r", "c", "h">>, Some(<<"r", "e", "q", "u", "e", "s", "t", "s">>)),
     Server(<<"g", "i", "t", "h", "u", "b">>, Some(<<"a", ";", "b">>))}

RECURSIVE ServerLists(_)
ServerLists(n) ==
    IF n = 0 THEN {<<>>}
    ELSE ServerLists(n - 1)
             \cup {Append(l, s) : l \in {x \in ServerLists(n - 1) : Len(x) = n - 1},
                                  s \in ServerPool}

PipCall(op, spec, mcp_servers, skip_pip) ==
    [op |-> op, spec |-> spec, mcp_servers |-> mcp_servers, skip_pip |-> skip_pip]

PipCalls ==
    {PipCall("install_pip_package", s, <<>>, FALSE) : s \in PipSpecs}
        \cup {PipCall("_install_pip_dependencies", <<>>, l, skip) :
                  l \in ServerLists(MaxServers), skip \in BOOLEAN}

\* a call made to the outside: who made it, what was called, for which
\* server of servers_with_pip (0 outside the loop), and whether it answered
\* yes (valid, satisfied, confirmed, found, exit code 0, success)
Event(caller, ev, server, ok) == [caller |-> caller, ev |-> ev, server |-> server, ok |-> ok]

\* the locals of the call: failed_servers, the position of the for loop in
\* servers_with_pip, the (success, message) tuple, pip_exe, and the calls
\* made so far
PipLocals(failed_servers, index, result, pip_exe, events) ==
    [failed_servers |-> failed_servers, index |-> index, result |-> result,
     pip_exe |-> pip_exe, events |-> events]

\* servers_with_pip = [s for s in mcp_servers if s.pip_package]
IsWithPip(s) == Truthy(s.pip_package)

servers_with_pip == SelectSeq(call.mcp_servers, IsWithPip)

\* the spec install_pip_package is working on, and the server it is for
CurrentSpec ==
    IF call.op = "install_pip_package" THEN call.spec
    ELSE servers_with_pip[ret.index].pip_package.str

CurrentServer == IF call.op = "install_pip_package" THEN 0 ELSE ret.index

\* the locals after one more call to the outside
Logged(locals, caller, ev, ok) ==
    [locals EXCEPT !.events = Append(@, Event(caller, ev, CurrentServer, ok))]

InitPip ==
    /\ shared_detector = DefaultDetector
    /\ call \in PipCalls
    /\ pc = "start"
    /\ ret = PipLocals({}, 0, NoPipResult, <<>>, <<>>)

\* mutant: the spec goes to pip whatever validate_pip_spec says
InstallValidate_result_ignored ==
    /\ \/ call.op = "install_pip_package" /\ pc = "start"
       \/ pc = "install_pip_package"
    /\ ret' = Logged(ret, "install_pip_package", "validate_pip_spec",
                     validate_pip_spec(CurrentSpec))
    /\ pc' = "find_pip_executable"
    /\ UNCHANGED <<shared_detector, call>>

\* if not validate_pip_spec(spec): return (False, "Invalid pip package spec")
InstallValidate ==
    /\ \/ call.op = "install_pip_package" /\ pc = "start"
       \/ pc = "install_pip_package"
    /\ IF validate_pip_spec(CurrentSpec)
       THEN /\ ret' = Logged(ret, "install_pip_package", "validate_pip_spec", TRUE)
            /\ pc' = "find_pip_executable"
       ELSE /\ ret' = [Logged(ret, "install_pip_package", "validate_pip_spec", FALSE)
                          EXCEPT !.result = PipResult(FALSE, <<"Invalid pip package spec: ",
                                                               CurrentSpec>>)]
            /\ pc' = "return"
    /\ UNCHANGED <<shared_detector, call>>

\* find_pip_executable: subprocess.run([sys.executable, "-m", "pip", "--version"])
FindPipProbe ==
    /\ pc = "find_pip_executable"
    /\ \E run \in ProbeRuns :
           IF run.kind = "CompletedProcess" /\ run.returncode = 0
           THEN /\ ret' = [Logged(ret, "find_pip_executable", "subprocess.run", TRUE)
                              EXCEPT !.pip_exe = <<"s", "y", "s", ".", "e", "x", "e", "c", "u", "t", "a", "b", "l", "e">>]
                /\ pc' = "subprocess.run"
           ELSE /\ ret' = Logged(ret, "find_pip_executable", "subprocess.run", FALSE)
                /\ pc' = "shutil.which"
    /\ UNCHANGED <<shared_detector, call>>

\* find_pip_executable: shutil.which("pip"), and "if not pip_exe" of the caller
FindPipWhich ==
    /\ pc = "shutil.which"
    /\ \E pip_path \in {None, Some(<<"/", "u", "s", "r", "/", "b", "i", "n", "/", "p", "i", "p">>)} :
           IF Truthy(pip_path)
           THEN /\ ret' = [Logged(ret, "find_pip_executable", "shutil.which", TRUE)
                              EXCEPT !.pip_exe = pip_path.str]
                /\ pc' = "subprocess.run"
           ELSE /\ ret' = [Logged(ret, "find_pip_executable", "shutil.which", FALSE)
                              EXCEPT !.result =
                                  PipResult(FALSE, <<"pip is not available. Install pip or use a virtual environment.">>)]
                /\ pc' = "return"
    /\ UNCHANGED <<shared_detector, call>>

\* result = subprocess.run(cmd, ...) inside try, with its two handlers
InstallRun ==
    /\ pc = "subprocess.run"
    /\ \E run \in InstallRuns :
           ret' = [Logged(ret, "install_pip_package", "subprocess.run",
                          run.kind = "CompletedProcess" /\ run.returncode = 0)
                      EXCEPT !.result = RunResult(CurrentSpec, run)]
    /\ pc' = "return"
    /\ UNCHANGED <<shared_detector, call>>

\* install_pip_package returns to the caller of the function
InstallReturn ==
    /\ call.op = "install_pip_package"
    /\ pc = "return"
    /\ pc' = "done"
    /\ UNCHANGED <<shared_detector, call, ret>>

\* failed_servers = set(), the filter, and the two early returns
DependenciesStart ==
    /\ call.op = "_install_pip_dependencies"
    /\ pc = "start"
    /\ IF servers_with_pip = <<>> \/ call.skip_pip
       THEN pc' = "done" /\ ret' = ret
       ELSE pc' = "for" /\ ret' = [ret EXCEPT !.index = 1]
    /\ UNCHANGED <<shared_detector, call>>

\* the locals when the loop goes on to the next server, the name of the
\* present one added to failed_servers if failed
NextServer(locals, failed) ==
    [locals EXCEPT !.index = @ + 1,
                   !.result = NoPipResult,
                   !.pip_exe = <<>>,
                   !.failed_servers =
                       IF failed THEN @ \cup {servers_with_pip[locals.index].name} ELSE @]

\* if not validate_pip_spec(spec): failed_servers.add(server.name); continue
LoopValidate ==
    /\ call.op = "_install_pip_dependencies"
    /\ pc = "for"
    /\ ret.index <= Len(servers_with_pip)
    /\ IF validate_pip_spec(CurrentSpec)
       THEN /\ ret' = Logged(ret, "_install_pip_dependencies", "validate_pip_spec", TRUE)
            /\ pc' = "installed_version_satisfies"
       ELSE /\ ret' = NextServer(Logged(ret, "_install_pip_dependencies",
                                        "validate_pip_spec", FALSE), TRUE)
            /\ pc' = "for"
    /\ UNCHANGED <<shared_detector, call>>

\* if installed_version_satisfies(spec): continue
LoopSatisfies ==
    /\ pc = "installed_version_satisfies"
    /\ \E installed \in BOOLEAN, in_specifier \in BOOLEAN :
           IF installed_version_satisfies(CurrentSpec, installed, in_specifier)
           THEN /\ ret' = NextServer(Logged(ret, "_install_pip_dependencies",
                                            "installed_version_satisfies", TRUE), FALSE)
                /\ pc' = "for"
           ELSE /\ ret' = Logged(ret, "_install_pip_dependencies",
                                 "installed_version_satisfies", FALSE)
                /\ pc' = "Confirm.ask"
    /\ UNCHANGED <<shared_detector, call>>

\* mutant: a declined install is not added to failed_servers
LoopAsk_decline_not_recorded ==
    /\ pc = "Confirm.ask"
    /\ \E answer \in BOOLEAN :
           IF answer
           THEN /\ ret' = Logged(ret, "_install_pip_dependencies", "Confirm.ask", TRUE)
                /\ pc' = "install_pip_package"
           ELSE /\ ret' = NextServer(Logged(ret, "_install_pip_dependencies",
                                            "Confirm.ask", FALSE), FALSE)
                /\ pc' = "for"
    /\ UNCHANGED <<shared_detector, call>>

\* if not Confirm.ask(...): failed_servers.add(server.name); continue
\* and otherwise the call of install_pip_package(spec)
LoopAsk ==
    /\ pc = "Confirm.ask"
    /\ \E answer \in BOOLEAN :
           IF answer
           THEN /\ ret' = Logged(ret, "_install_pip_dependencies", "Confirm.ask", TRUE)
                /\ pc' = "install_pip_package"
           ELSE /\ ret' = NextServer(Logged(ret, "_install_pip_dependencies",
                                            "Confirm.ask", FALSE), TRUE)
                /\ pc' = "for"
    /\ UNCHANGED <<shared_detector, call>>

\* success, message = install_pip_package(spec); if not success:
\* failed_servers.add(server.name)
LoopInstalled ==
    /\ call.op = "_install_pip_dependencies"
    /\ pc = "return"
    /\ ret' = NextServer(Logged(ret, "_install_pip_dependencies", "install_pip_package",
                                ret.result.success),
                         ~ret.result.success)
    /\ pc' = "for"
    /\ UNCHANGED <<shared_detector, call>>

\* return failed_servers
DependenciesReturn ==
    /\ call.op = "_install_pip_dependencies"
    /\ pc = "for"
    /\ ret.index > Len(servers_with_pip)
    /\ pc' = "done"
    /\ UNCHANGED <<shared_detector, call, ret>>

NextPip ==
    \/ InstallValidate
    \/ FindPipProbe
    \/ FindPipWhich
    \/ InstallRun
    \/ InstallReturn
    \/ DependenciesStart
    \/ LoopValidate
    \/ LoopSatisfies
    \/ LoopAsk
    \/ LoopInstalled
    \/ DependenciesReturn

SpecPip == InitPip /\ [][NextPip]_vars

\* the positions in the list of calls made where caller called ev
Calls_(caller, ev) ==
    {i \in DOMAIN ret.events : ret.events[i].caller = caller /\ ret.events[i].ev = ev}

\* the positions where install_pip_package started the pip install subprocess
InstallRunsMade == Calls_("install_pip_package", "subprocess.run")

\* the positions where find_pip_executable looked for pip
PipLookups ==
    Calls_("find_pip_executable", "subprocess.run")
        \cup Calls_("find_pip_executable", "shutil.which")

\* C26: install_pip_package validates the spec before anything else.  For a
\* spec validate_pip_spec rejects (empty, URL, path, shell metacharacters)
\* it looks for no pip executable and starts no subprocess and returns
\* (False, "Invalid pip package spec: ..."); the pip install subprocess is
\* started only after the validation of the same spec succeeded and a pip
\* executable was found; and a non-zero exit, a timeout and an OSError of
\* the subprocess all come back as (False, message): the call returns
\* success exactly when the subprocess exited 0.
C26_ValidatesBeforeAnythingElse ==
    /\ \A i \in PipLookups \cup InstallRunsMade :
           \E j \in 1..(i - 1) :
               /\ ret.events[j] = Event("install_pip_package", "validate_pip_spec",
                                        ret.events[i].server, TRUE)
               /\ \A k \in j..i : ret.events[k].caller # "_install_pip_dependencies"
    /\ \A i \in InstallRunsMade :
           /\ i - 1 \in PipLookups
           /\ ret.events[i - 1].ok
           /\ i = Len(ret.events) => ret.pip_exe # <<>>
    /\ call.op = "install_pip_package"
           => /\ ret.events # <<>> => ret.events[1].ev = "validate_pip_spec"
              /\ ~validate_pip_spec(call.spec)
                     => /\ PipLookups = {} /\ InstallRunsMade = {}
                        /\ pc = "done"
                               => ret.result = PipResult(FALSE, <<"Invalid pip package spec: ",
                                                                  call.spec>>)
              /\ pc = "done"
                     => /\ ret.result.message # <<>>
                        /\ ret.result.success
                               <=> \E i \in InstallRunsMade : ret.events[i].ok
                        /\ validate_pip_spec(call.spec) /\ InstallRunsMade = {}
                               => /\ ret.result.success = FALSE
                                  /\ \E i \in PipLookups : ~ret.events[i].ok

\* C26 witness: a valid spec, pip found by the second lookup, and the pip
\* install subprocess ran into the timeout: (False, "... timed out ...")
C26_Witness ==
    /\ Done("install_pip_package")
    /\ call.spec = <<"m", "c", "p", "-", "s", "e", "r", "v", "e", "r", ">", "=", "1", ".", "0">>
    /\ Len(ret.events) = 4
    /\ ret.pip_exe = <<"/", "u", "s", "r", "/", "b", "i", "n", "/", "p", "i", "p">>
    /\ ret.result.success = FALSE
    /\ Len(ret.result.message) = 4
    /\ ret.result.message[1] = "pip install timed out after "

\* server i of servers_with_pip did not get its pip dependency: its spec
\* does not validate, or the user declined, or install_pip_package failed
NotObtained(i) ==
    \/ ~validate_pip_spec(servers_with_pip[i].pip_package.str)
    \/ \E k \in Calls_("_install_pip_dependencies", "Confirm.ask") :
           ret.events[k].server = i /\ ~ret.events[k].ok
    \/ \E k \in Calls_("_install_pip_dependencies", "install_pip_package") :
           ret.events[k].server = i /\ ~ret.events[k].ok

\* server i of servers_with_pip has its pip dependency: the installed
\* version satisfies the spec, or install_pip_package succeeded
Obtained(i) ==
    \/ \E k \in Calls_("_install_pip_dependencies", "installed_version_satisfies") :
           ret.events[k].server = i /\ ret.events[k].ok
    \/ \E k \in Calls_("_install_pip_dependencies", "install_pip_package") :
           ret.events[k].server = i /\ ret.events[k].ok

\* the calls made for server i, in the order they were made
CallsFor(i) == SelectSeq(ret.events, LAMBDA e : e.server = i)

----------------------------------------------------------------------------
(* Position, key and kind of value in the templater.                       *)

\* what the templater returns for the configuration {key: value}
Alone(key, value, d) == template_secrets_in_config(Dict(<<Entry(key, value)>>), d)

\* every str value of a mapping entry of in, at whatever depth and list
\* position, is written to out as it is for the one-entry configuration with
\* that key and value
RECURSIVE AsAlone(_, _, _)
AsAlone(in, out, d) ==
    IF in.type = "dict"
    THEN \A i \in 1..Len(in.val) :
             IF in.val[i].value.type = "str"
             THEN out.val[i].value = Alone(in.val[i].key, in.val[i].value, d)[1].val[1].value
             ELSE AsAlone(in.val[i].value, out.val[i].value, d)
    ELSE IF in.type = "list"
    THEN \A i \in 1..Len(in.val) : AsAlone(in.val[i], out.val[i], d)
    ELSE TRUE

\* the keys the one-entry configurations report, in depth-first order
RECURSIVE KeysAlone(_, _)
KeysAlone(node, d) ==
    IF node.type = "dict"
    THEN Flatten([i \in 1..Len(node.val) |->
             IF node.val[i].value.type = "str"
             THEN Alone(node.val[i].key, node.val[i].value, d)[2]
             ELSE KeysAlone(node.val[i].value, d)])
    ELSE IF node.type = "list"
    THEN Flatten([i \in 1..Len(node.val) |-> KeysAlone(node.val[i], d)])
    ELSE <<>>

\* paths a caller might start the helper with
StartPaths == { <<>>, <<"s", "e", "r", "v", "e", "r", "s">>, <<"a", "p", "i", "_", "k", "e", "y", ".", "0">> }

\* C28: classification in the templater is independent of position.  What is
\* written for a str value of a mapping entry, and whether its key is
\* reported, is what the templater does for the entry alone in a
\* configuration of its own: ancestor keys, depth and list index play no
\* part; and the path the helper is started with changes nothing.
C28_PositionIndependent ==
    Done("template_secrets_in_config")
        => /\ AsAlone(call.config, ret.config, UsedDetector)
           /\ ret.templated_keys = KeysAlone(call.config, UsedDetector)
           /\ \A p \in StartPaths :
                  _template_dict_recursive(call.config, UsedDetector, <<>>, p)
                      = Processed(ret.config, ret.templated_keys)

\* C28 witness: the same entry at the top, and in both mappings of a list
\* below the key "args", is replaced by the same placeholder each time
C28_Witness ==
    /\ Done("template_secrets_in_config")
    /\ call.config = Dict(<<Entry(<<"a", "r", "g", "s">>,
           List(<<Dict(<<Entry(<<"a", "p", "i", "_", "k", "e", "y">>, Str(<<"s", "k", "_", "l", "i", "v", "e", "_", "a", "b", "c", "d", "e", "f", "1", "2", "3", "4", "5", "6", "7", "8", "9", "0", "A", "B", "C", "D", "E", "F">>))>>),
                  Dict(<<Entry(<<"a", "p", "i", "_", "k", "e", "y">>, Str(<<"s", "k", "_", "l", "i", "v", "e", "_", "a", "b", "c", "d", "e", "f", "1", "2", "3", "4", "5", "6", "7", "8", "9", "0", "A", "B", "C", "D", "E", "F">>))>>)>>))>>)
    /\ ret.config = Dict(<<Entry(<<"a", "r", "g", "s">>,
           List(<<Dict(<<Entry(<<"a", "p", "i", "_", "k", "e", "y">>, Str(<<"$", "{", "A", "P", "I", "_", "K", "E", "Y", "}">>))>>),
                  Dict(<<Entry(<<"a", "p", "i", "_", "k", "e", "y">>, Str(<<"$", "{", "A", "P", "I", "_", "K", "E", "Y", "}">>))>>)>>))>>)
    /\ ret.templated_keys = << <<"a", "p", "i", "_", "k", "e", "y">>, <<"a", "p", "i", "_", "k", "e", "y">> >>
    /\ Alone(<<"a", "p", "i", "_", "k", "e", "y">>, Str(<<"s", "k", "_", "l", "i", "v", "e", "_", "a", "b", "c", "d", "e", "f", "1", "2", "3", "4", "5", "6", "7", "8", "9", "0", "A", "B", "C", "D", "E", "F">>), UsedDetector)[1]
           = Dict(<<Entry(<<"a", "p", "i", "_", "k", "e", "y">>, Str(<<"$", "{", "A", "P", "I", "_", "K", "E", "Y", "}">>))>>)

\* every replaced str value of a mapping entry of in is, in out, the
\* placeholder template_value gives for the entry's key, and a
\* templated_value that detect supplies is that placeholder too
RECURSIVE NamedByKey(_, _, _)
NamedByKey(in, out, d) ==
    IF in.type = "dict"
    THEN \A i \in 1..Len(in.val) :
             IF in.val[i].value.type = "str"
             THEN LET detection == detect(d, in.val[i].value.val, in.val[i].key)
                  IN  detection.confidence \in {HIGH, MEDIUM}
                          => /\ out.val[i].value = Str(template_value(d, in.val[i].key))
                             /\ Truthy(detection.templated_value)
                                    => detection.templated_value.str
                                           = template_value(d, in.val[i].key)
                             /\ ~Truthy(detection.templated_value)
                                    => in.val[i].key = <<>>
             ELSE NamedByKey(in.val[i].value, out.val[i].value, d)
    ELSE IF in.type = "list"
    THEN \A i \in 1..Len(in.val) : NamedByKey(in.val[i], out.val[i], d)
    ELSE TRUE

RECURSIVE ListStringsKept(_, _)
ListStringsKept(in, out) ==
    IF in.type = "dict"
    THEN /\ out.type = "dict"
         /\ Len(out.val) = Len(in.val)
         /\ \A i \in 1..Len(in.val) :
                in.val[i].value.type # "str"
                    => ListStringsKept(in.val[i].value, out.val[i].value)
    ELSE IF in.type = "list"
    THEN /\ out.type = "list"
         /\ Len(out.val) = Len(in.val)
         /\ \A i \in 1..Len(in.val) :
                IF in.val[i].type = "str"
                THEN out.val[i] = in.val[i]
                ELSE ListStringsKept(in.val[i], out.val[i])
    ELSE out = in

\* the keys of the str-valued mapping entries of node, at any depth
RECURSIVE StrEntryKeys(_)
StrEntryKeys(node) ==
    IF node.type = "dict"
    THEN UNION {IF node.val[i].value.type = "str"
                THEN {node.val[i].key}
                ELSE StrEntryKeys(node.val[i].value) : i \in 1..Len(node.val)}
    ELSE IF node.type = "list"
    THEN UNION {StrEntryKeys(node.val[i]) : i \in 1..Len(node.val)}
    ELSE {}

\* C30: only str values of mapping entries are classified.  A str that is
\* an element of a list, at any depth, is returned unchanged; a str handed
\* to the helper itself is returned unchanged with the templated-key list
\* as it was, whatever the current path; and every templated key is the
\* key of a str-valued mapping entry that detect classifies HIGH or MEDIUM.
C30_OnlyMappingStringsClassified ==
    Done("template_secrets_in_config")
        => /\ ListStringsKept(call.config, ret.config)
           /\ ret.templated_keys = ReplacedKeys(call.config, UsedDetector)
           /\ Range(ret.templated_keys) \subseteq StrEntryKeys(call.config)
           /\ \A v \in LeafValues, p \in StartPaths :
                  _template_dict_recursive(Str(v), UsedDetector, ret.templated_keys, p)
                      = Processed(Str(v), ret.templated_keys)

\* C30 witness: an API key that detect classifies HIGH under the key "args"
\* stays as it is when it is an element of the list under "args"
C30_Witness ==
    /\ Done("template_secrets_in_config")
    /\ call.config = Dict(<<Entry(<<"a", "r", "g", "s">>,
           List(<<Scalar("int", <<"3", "0">>), Str(<<"s", "k", "_", "l", "i", "v", "e", "_", "a", "b", "c", "d", "e", "f", "1", "2", "3", "4", "5", "6", "7", "8", "9", "0", "A", "B", "C", "D", "E", "F">>)>>))>>)
    /\ detect(UsedDetector, <<"s", "k", "_", "l", "i", "v", "e", "_", "a", "b", "c", "d", "e", "f", "1", "2", "3", "4", "5", "6", "7", "8", "9", "0", "A", "B", "C", "D", "E", "F">>, <<"a", "r", "g", "s">>).confidence = HIGH
    /\ ret.config = call.config
    /\ ret.templated_keys = <<>>

====
